---- MODULE Spec2Model ----
(***************************************************************************)
(* A model of formsbot: the Form aggregate (src/src/state.rs), the Form    *)
(* Store and Cooldown Tracker kept in redis (State, src/src/state.rs), the *)
(* admin commands (src/src/commands/forms.rs, fields.rs, cooldowns.rs) and *)
(* the button-triggered submission pipeline (src/src/event_handler.rs).    *)
(*                                                                         *)
(* Option<T> is modelled as a sequence of length at most one: None is <<>> *)
(* and Some(x) is <<x>>.  Rust's 0-based indices are kept as they are; the *)
(* 1-based TLA+ sequences are addressed with index + 1.                    *)
(***************************************************************************)
EXTENDS Integers, Sequences, FiniteSets, TLC

VARIABLES
    agg,        \* SpecAgg: one in-memory Form aggregate, operated on directly
    last,       \* SpecAgg: the last aggregate call, its arguments, receiver and result
    store,      \* the Form Store: [forms:{guild} -> [form id -> Option<the form's JSON>]]
    usedIds,    \* form ids Form::new has generated so far (Uuid::new_v4 never repeats)
    admin,      \* the admin commands in flight, one per admin
    cooldowns,  \* the Cooldown Tracker: [cooldown key -> seconds to live], 0 = no key
    now,        \* wall clock, in seconds
    permissions, \* the guild cache: [channel -> the bot may create private threads there]
    run         \* the submission pipeline runs (event_handler invocations)

vars == <<agg, last, store, usedIds, admin, cooldowns, now, permissions, run>>

None == <<>>
Some(x) == <<x>>
IsSome(o) == o # <<>>
Unwrap(o) == o[1]

-----------------------------------------------------------------------------
(* Program constants                                                       *)

LABEL_MAX_LENGTH == 45
PLACEHOLDER_MAX_LENGTH == 100
FIELD_RESPONSE_MAX_LENGTH == 1024
TITLE_MAX_LENGTH == 256
DESCRIPTION_MAX_LENGTH == 4096
MAX_FIELDS == 5
MODAL_TIMEOUT_SECS == 600
\* the destination of the unit test move_too_far
MOVE_TOO_FAR == 10

(* Bounds of the model                                                     *)

MaxIndex == 6       \* field indices, destinations and add_before values tried: 0..MaxIndex
MaxTime == 1        \* the clock stops at MaxTime
MaxCooldown == 2    \* form cooldown durations tried, in seconds: 1..MaxCooldown

Indices == 0 .. MaxIndex

-----------------------------------------------------------------------------
(* FormField (state.rs 171-248)                                            *)

\* A String is the sequence of its UTF-8 bytes, and str::len() is their number:
\* Len of a text is its length in bytes.  A text written "..." is ASCII.
\* FormField::validate_name
validate_name(name) == IF Len(name) > LABEL_MAX_LENGTH THEN "Err(ValueTooLong)" ELSE "Ok"

\* FormField::new(name, style): Result<FormField, ValueTooLong>
FormField_new(name, style) ==
    IF validate_name(name) # "Ok"
    THEN [ret |-> "Err(ValueTooLong)", field |-> None]
    ELSE [ret |-> "Ok",
          field |-> Some([name |-> name, style |-> style, placeholder |-> None,
                          min_length |-> None, max_length |-> None,
                          required |-> TRUE, inline |-> FALSE])]

\* FormField::set_name
set_name(field, name) ==
    IF validate_name(name) # "Ok"
    THEN [ret |-> "Err(ValueTooLong)", field |-> field]
    ELSE [ret |-> "Ok", field |-> [field EXCEPT !.name = name]]

\* FormField::set_placeholder (placeholder: Option<String>)
set_placeholder(field, placeholder) ==
    IF IsSome(placeholder) /\ Len(Unwrap(placeholder)) > PLACEHOLDER_MAX_LENGTH
    THEN [ret |-> "Err(ValueTooLong)", field |-> field]
    ELSE [ret |-> "Ok", field |-> [field EXCEPT !.placeholder = placeholder]]

\* the inline flag of the field not passed on
apply_to_embed_NeverInline(field, value) ==
    [name |-> field.name, value |-> value, inline |-> FALSE]

\* FormField::apply_to_embed: one embed field (name, value, inline)
apply_to_embed(field, value) ==
    [name |-> field.name, value |-> value, inline |-> field.inline]

-----------------------------------------------------------------------------
(* Form (state.rs 250-424)                                                 *)

\* Form::validate_title
validate_title(title) == IF Len(title) > TITLE_MAX_LENGTH THEN "Err(ValueTooLong)" ELSE "Ok"

\* Form::new(title, destination) with the id Uuid::new_v4() returned
Form_new(id, title, destination) ==
    IF validate_title(title) # "Ok"
    THEN [ret |-> "Err(ValueTooLong)", form |-> None]
    ELSE [ret |-> "Ok",
          form |-> Some([id |-> id, title |-> title, description |-> None,
                         fields |-> <<>>, destination |-> destination,
                         mention |-> None, cooldown |-> None])]

\* Form::set_title
set_title(form, title) ==
    IF validate_title(title) # "Ok"
    THEN [ret |-> "Err(ValueTooLong)", form |-> form]
    ELSE [ret |-> "Ok", form |-> [form EXCEPT !.title = title]]

\* Form::set_description (description: Option<String>)
set_description(form, description) ==
    IF IsSome(description) /\ Len(Unwrap(description)) > DESCRIPTION_MAX_LENGTH
    THEN [ret |-> "Err(ValueTooLong)", form |-> form]
    ELSE [ret |-> "Ok", form |-> [form EXCEPT !.description = description]]

\* Form::set_cooldown (cooldown: Option<Duration>, here in milliseconds):
\* truncated to whole seconds, zero filtered out.  The stored value is in seconds.
set_cooldown_KeepsZero(form, duration) ==
    [form EXCEPT !.cooldown = IF IsSome(duration) THEN Some(Unwrap(duration) \div 1000)
                              ELSE None]

set_cooldown(form, cooldown) ==
    LET secs == IF IsSome(cooldown) THEN Some(Unwrap(cooldown) \div 1000) ELSE None
    IN  [form EXCEPT !.cooldown = IF IsSome(secs) /\ Unwrap(secs) # 0 THEN secs ELSE None]

\* Vec::insert(i, x) for i <= len, Vec::push(x), Vec::remove(i) for i < len
VecInsert(v, i, x) == SubSeq(v, 1, i) \o <<x>> \o SubSeq(v, i + 1, Len(v))
VecPush(v, x) == Append(v, x)
VecRemove(v, i) == SubSeq(v, 1, i) \o SubSeq(v, i + 2, Len(v))

\* a slip in the capacity check: > instead of >=
add_field_OffByOneCapacity(form, field, add_before) ==
    IF Len(form.fields) > MAX_FIELDS
    THEN [ret |-> "Err(TooManyFields)", form |-> form]
    ELSE IF IsSome(add_before)
         THEN IF Unwrap(add_before) > Len(form.fields)
              THEN [ret |-> "Err(IllegalAddBefore)", form |-> form]
              ELSE [ret |-> "Ok",
                    form |-> [form EXCEPT !.fields = VecInsert(@, Unwrap(add_before), field)]]
         ELSE [ret |-> "Ok", form |-> [form EXCEPT !.fields = VecPush(@, field)]]

\* the capacity check made after the add_before check
add_field_CapacityCheckedLast(form, field, add_before) ==
    IF IsSome(add_before) /\ Unwrap(add_before) > Len(form.fields)
    THEN [ret |-> "Err(IllegalAddBefore)", form |-> form]
    ELSE IF Len(form.fields) >= MAX_FIELDS
         THEN [ret |-> "Err(TooManyFields)", form |-> form]
         ELSE IF IsSome(add_before)
              THEN [ret |-> "Ok",
                    form |-> [form EXCEPT !.fields = VecInsert(@, Unwrap(add_before), field)]]
              ELSE [ret |-> "Ok", form |-> [form EXCEPT !.fields = VecPush(@, field)]]

\* a slip in the add_before check: >= instead of >, so that add_before = len is refused
add_field_RefusesAppendIndex(form, field, add_before) ==
    IF Len(form.fields) >= MAX_FIELDS
    THEN [ret |-> "Err(TooManyFields)", form |-> form]
    ELSE IF IsSome(add_before)
         THEN IF Unwrap(add_before) >= Len(form.fields)
              THEN [ret |-> "Err(IllegalAddBefore)", form |-> form]
              ELSE [ret |-> "Ok",
                    form |-> [form EXCEPT !.fields = VecInsert(@, Unwrap(add_before), field)]]
         ELSE [ret |-> "Ok", form |-> [form EXCEPT !.fields = VecPush(@, field)]]

\* Form::add_field(field, add_before: Option<usize>): Result<(), AddFieldError>
add_field(form, field, add_before) ==
    IF Len(form.fields) >= MAX_FIELDS
    THEN [ret |-> "Err(TooManyFields)", form |-> form]
    ELSE IF IsSome(add_before)
         THEN IF Unwrap(add_before) > Len(form.fields)
              THEN [ret |-> "Err(IllegalAddBefore)", form |-> form]
              ELSE [ret |-> "Ok",
                    form |-> [form EXCEPT !.fields = VecInsert(@, Unwrap(add_before), field)]]
         ELSE [ret |-> "Ok", form |-> [form EXCEPT !.fields = VecPush(@, field)]]

\* a slip in the bounds check: <= instead of <
remove_field_IndexOffByOne(form, index) ==
    IF index <= Len(form.fields)
    THEN [ret |-> "true", form |-> [form EXCEPT !.fields = VecRemove(@, index)]]
    ELSE [ret |-> "false", form |-> form]

\* Form::remove_field(index): bool
remove_field(form, index) ==
    IF index < Len(form.fields)
    THEN [ret |-> "true", form |-> [form EXCEPT !.fields = VecRemove(@, index)]]
    ELSE [ret |-> "false", form |-> form]

\* the destination taken as an index of the sequence before the removal
move_field_PreRemovalDestination(form, index, destination) ==
    IF index >= Len(form.fields)
    THEN [ret |-> "Ok(false)", form |-> form]
    ELSE IF destination >= Len(form.fields)
         THEN [ret |-> "Err(IllegalAddBefore)", form |-> form]
         ELSE LET field == form.fields[index + 1]
                  removed == [form EXCEPT !.fields = VecRemove(@, index)]
                  dest == IF destination > index THEN destination - 1 ELSE destination
                  added == add_field(removed, field, Some(dest))
              IN  IF added.ret = "Ok"
                  THEN [ret |-> "Ok(true)", form |-> added.form]
                  ELSE [ret |-> added.ret, form |-> added.form]

\* the destination check left to add_field, which runs after the removal
move_field_NoDestinationCheck(form, index, destination) ==
    IF index >= Len(form.fields)
    THEN [ret |-> "Ok(false)", form |-> form]
    ELSE LET field == form.fields[index + 1]
             removed == [form EXCEPT !.fields = VecRemove(@, index)]
             added == add_field(removed, field, Some(destination))
         IN  IF added.ret = "Ok"
             THEN [ret |-> "Ok(true)", form |-> added.form]
             ELSE [ret |-> added.ret, form |-> added.form]

\* the destination check made before the index check
move_field_DestinationCheckedFirst(form, index, destination) ==
    IF destination >= Len(form.fields)
    THEN [ret |-> "Err(IllegalAddBefore)", form |-> form]
    ELSE IF index >= Len(form.fields)
         THEN [ret |-> "Ok(false)", form |-> form]
         ELSE LET field == form.fields[index + 1]
                  removed == [form EXCEPT !.fields = VecRemove(@, index)]
                  added == add_field(removed, field, Some(destination))
              IN  IF added.ret = "Ok"
                  THEN [ret |-> "Ok(true)", form |-> added.form]
                  ELSE [ret |-> added.ret, form |-> added.form]

\* Form::move_field(index, destination): Result<bool, AddFieldError>
\* the field is removed first, then re-inserted through add_field; an error of
\* add_field is returned with the field already removed
move_field(form, index, destination) ==
    IF index >= Len(form.fields)
    THEN [ret |-> "Ok(false)", form |-> form]
    ELSE IF destination >= Len(form.fields)
         THEN [ret |-> "Err(IllegalAddBefore)", form |-> form]
         ELSE LET field == form.fields[index + 1]
                  removed == [form EXCEPT !.fields = VecRemove(@, index)]
                  added == add_field(removed, field, Some(destination))
              IN  IF added.ret = "Ok"
                  THEN [ret |-> "Ok(true)", form |-> added.form]
                  ELSE [ret |-> added.ret, form |-> added.form]

\* usize::to_string of an index below MAX_FIELDS
usize_to_string(i) == <<"0", "1", "2", "3", "4">>[i + 1]

\* FormField::input_text(custom_id): the modal input of a field.  The input's
\* maximum length is set from min_length (1024 when that is None); max_length
\* of the field is not read.
input_text(field, custom_id) ==
    [custom_id |-> custom_id,
     label |-> field.name,
     style |-> field.style,
     max_length |-> Some(IF IsSome(field.min_length) THEN Unwrap(field.min_length)
                         ELSE FIELD_RESPONSE_MAX_LENGTH),
     required |-> field.required,
     placeholder |-> field.placeholder,
     min_length |-> field.min_length]

\* enumerate() taken as counting from 1
quick_modal_OneBasedIds(form) ==
    IF Len(form.fields) = 0
    THEN None
    ELSE Some([title |-> form.title, timeout |-> MODAL_TIMEOUT_SECS,
               inputs |-> [i \in 1 .. Len(form.fields) |->
                              input_text(form.fields[i],
                                         IF i < MAX_FIELDS THEN usize_to_string(i) ELSE "5")]])

\* the is_empty check left out: a modal without inputs for a form without fields
quick_modal_NoEmptyCheck(form) ==
    Some([title |-> form.title, timeout |-> MODAL_TIMEOUT_SECS,
          inputs |-> [i \in 1 .. Len(form.fields) |->
                         input_text(form.fields[i], usize_to_string(i - 1))]])

\* Form::quick_modal: None for a form without fields, else one input per field,
\* input i tagged with custom id i, and the collection timeout
quick_modal(form) ==
    IF Len(form.fields) = 0
    THEN None
    ELSE Some([title |-> form.title, timeout |-> MODAL_TIMEOUT_SECS,
               inputs |-> [i \in 1 .. Len(form.fields) |->
                              input_text(form.fields[i], usize_to_string(i - 1))]])

-----------------------------------------------------------------------------
(* The stored form of a Form (state.rs 250-276): serde_json of the derived *)
(* Serialize, read back by the derived Deserialize.  A JSON value is a     *)
(* tagged tuple: null, a string, a number, a boolean, an array, an object. *)

JNull == <<"null">>
JStr(s) == <<"str", s>>
JNum(n) == <<"num", n>>
JBool(b) == <<"bool", b>>
JArr(seq) == <<"arr", seq>>
JObj(members) == <<"obj", members>>
\* Option<T>: null for None
FromJ(j) == j[2]
JOptionStr(o) == IF IsSome(o) THEN JStr(Unwrap(o)) ELSE JNull
JOptionNum(o) == IF IsSome(o) THEN JNum(Unwrap(o)) ELSE JNull
FromJOption(j) == IF j[1] = "null" THEN None ELSE Some(FromJ(j))

\* InputTextStyle is a numbered enum: Short = 1, Paragraph = 2
style_to_json(style) == JNum(IF style = "Short" THEN 1 ELSE 2)
style_from_json(j) == IF j[2] = 1 THEN "Short" ELSE "Paragraph"

\* SerializableMention, externally tagged: {"Role": id} or {"User": id}
mention_to_json(m) == JObj([k \in {m.kind} |-> JStr(m.id)])
mention_from_json(j) ==
    LET kind == CHOOSE k \in DOMAIN j[2] : TRUE
    IN  [kind |-> kind, id |-> j[2][kind][2]]

\* std::time::Duration: {"secs": .., "nanos": ..}; a form's cooldown is whole seconds
duration_to_json(secs) == JObj([secs |-> JNum(secs), nanos |-> JNum(0)])
duration_from_json(j) == j[2].secs[2]

\* Option<SerializableMention> and Option<Duration>: null for None
mention_option_to_json(o) == IF IsSome(o) THEN mention_to_json(Unwrap(o)) ELSE JNull
mention_option_from_json(j) == IF j[1] = "null" THEN None ELSE Some(mention_from_json(j))
duration_option_to_json(o) == IF IsSome(o) THEN duration_to_json(Unwrap(o)) ELSE JNull
duration_option_from_json(j) == IF j[1] = "null" THEN None ELSE Some(duration_from_json(j))

field_to_json(f) ==
    JObj([name |-> JStr(f.name),
          style |-> style_to_json(f.style),
          placeholder |-> JOptionStr(f.placeholder),
          min_length |-> JOptionNum(f.min_length),
          max_length |-> JOptionNum(f.max_length),
          required |-> JBool(f.required),
          inline |-> JBool(f.inline)])

field_from_json(j) ==
    [name |-> FromJ(j[2].name),
     style |-> style_from_json(j[2].style),
     placeholder |-> FromJOption(j[2].placeholder),
     min_length |-> FromJOption(j[2].min_length),
     max_length |-> FromJOption(j[2].max_length),
     required |-> FromJ(j[2].required),
     inline |-> FromJ(j[2].inline)]

\* a cooldown that is not written out (#[serde(skip)] on the field)
write_redis_args_SkipsCooldown(form) ==
    JObj([id |-> JStr(form.id),
          title |-> JStr(form.title),
          description |-> JOptionStr(form.description),
          fields |-> JArr([i \in 1 .. Len(form.fields) |-> field_to_json(form.fields[i])]),
          destination |-> JStr(form.destination),
          mention |-> mention_option_to_json(form.mention),
          cooldown |-> JNull])

\* impl ToRedisArgs for Form: serde_json::to_vec(self)
write_redis_args(form) ==
    JObj([id |-> JStr(form.id),
          title |-> JStr(form.title),
          description |-> JOptionStr(form.description),
          fields |-> JArr([i \in 1 .. Len(form.fields) |-> field_to_json(form.fields[i])]),
          destination |-> JStr(form.destination),
          mention |-> mention_option_to_json(form.mention),
          cooldown |-> duration_option_to_json(form.cooldown)])

\* impl FromRedisValue for Form: serde_json::from_str
from_redis_value(v) ==
    [id |-> FromJ(v[2].id),
     title |-> FromJ(v[2].title),
     description |-> FromJOption(v[2].description),
     fields |-> [i \in 1 .. Len(v[2].fields[2]) |-> field_from_json(v[2].fields[2][i])],
     destination |-> FromJ(v[2].destination),
     mention |-> mention_option_from_json(v[2].mention),
     cooldown |-> duration_option_from_json(v[2].cooldown)]

-----------------------------------------------------------------------------
(* The aggregate on its own: SpecAgg takes any Form that Form::new and     *)
(* add_field can build from the field names in AggNames and applies one of *)
(* add_field, remove_field and move_field to it, with every index in       *)
(* Indices.                                                                *)

AggNames == {"F0", "F1", "F2", "F3", "F4"}
AggField(name) == Unwrap(FormField_new(name, "Short").field)

IdleAdmin == [pc |-> "idle"]
IdleRun ==
    [pc |-> "idle", guild |-> "", id |-> "", user |-> "", form |-> None, remaining |-> None,
     inputs |-> <<>>, calls |-> <<>>, reply |-> "", thread |-> None, message |-> None,
     outcome |-> "", at |-> 0]
Guilds == {"g1", "g2"}
FormIds == {"f1", "f2"}
Admins == {"a1", "a2"}
Users == {"u1", "u2"}
Runs == {"r1", "r2"}
\* every guild's forms under one key
get_forms_key_Shared(guild_id) == <<"forms", "g1">>

\* get_forms_key: the redis key of a guild's hash of forms, forms:{guild_id}
get_forms_key(guild_id) == <<"forms", guild_id>>
FormsKeys == {get_forms_key(g) : g \in Guilds}
CooldownKeys == Guilds \X FormIds \X Users
Channels == {"c1"}

\* the parts of the state an aggregate-only behaviour leaves alone
RestInit ==
    /\ store = [k \in FormsKeys |-> [f \in FormIds |-> None]]
    /\ usedIds = {}
    /\ admin = [a \in Admins |-> IdleAdmin]
    /\ cooldowns = [k \in CooldownKeys |-> 0]
    /\ now = 0
    /\ permissions = [c \in Channels |-> TRUE]
    /\ run = [r \in Runs |-> IdleRun]

\* the field sequences add_field can build: at most MAX_FIELDS fields
AggFieldSeqs == UNION {[1 .. n -> {AggField(name) : name \in AggNames}] : n \in 0 .. MAX_FIELDS}

AggInit ==
    /\ agg \in {[Unwrap(Form_new("f1", "My Title", "c1").form) EXCEPT !.fields = fs] :
                  fs \in AggFieldSeqs}
    /\ last = [op |-> "new", field |-> None, index |-> None, arg |-> None,
               before |-> agg, ret |-> "Ok"]
    /\ RestInit

AggAddField(name, add_before) ==
    /\ last.op = "new"
    /\ LET r == add_field(agg, AggField(name), add_before)
       IN  /\ agg' = r.form
           /\ last' = [op |-> "add_field", field |-> Some(AggField(name)), index |-> None,
                       arg |-> add_before, before |-> agg, ret |-> r.ret]
           /\ UNCHANGED <<store, usedIds, admin, cooldowns, now, run, permissions>>

AggRemoveField(index) ==
    /\ last.op = "new"
    /\ LET r == remove_field(agg, index)
       IN  /\ agg' = r.form
           /\ last' = [op |-> "remove_field", field |-> None, index |-> Some(index),
                       arg |-> None, before |-> agg, ret |-> r.ret]
           /\ UNCHANGED <<store, usedIds, admin, cooldowns, now, run, permissions>>

AggMoveField(index, destination) ==
    /\ last.op = "new"
    /\ LET r == move_field(agg, index, destination)
       IN  /\ agg' = r.form
           /\ last' = [op |-> "move_field", field |-> None, index |-> Some(index),
                       arg |-> Some(destination), before |-> agg, ret |-> r.ret]
           /\ UNCHANGED <<store, usedIds, admin, cooldowns, now, run, permissions>>

AggNext ==
    \/ \E name \in AggNames, ab \in {None} \cup {Some(i) : i \in Indices} :
          AggAddField(name, ab)
    \/ \E i \in Indices : AggRemoveField(i)
    \/ \E i \in Indices, d \in Indices \cup {MOVE_TOO_FAR} : AggMoveField(i, d)

SpecAgg == AggInit /\ [][AggNext]_vars

-----------------------------------------------------------------------------
(* The Form Store (State, state.rs 88-108): one redis hash per guild       *)

\* State::get_form: HGET forms:{guild} {id}, None for a missing field
get_form(st, guild, id) ==
    LET v == st[get_forms_key(guild)][id]
    IN  IF v = None THEN None ELSE Some(from_redis_value(Unwrap(v)))

\* State::get_form_ids: HVALS forms:{guild}, the (id, title) of each form
get_form_ids(st, guild) ==
    {<<f.id, f.title>> :
        f \in {from_redis_value(Unwrap(st[get_forms_key(guild)][id])) :
                 id \in {i \in FormIds : st[get_forms_key(guild)][i] # None}}}

\* HSETNX where HSET is meant: an existing form is never overwritten
save_form_IfAbsent(st, guild, form) ==
    IF IsSome(st[get_forms_key(guild)][form.id])
    THEN st
    ELSE [st EXCEPT ![get_forms_key(guild)][form.id] = Some(write_redis_args(form))]

\* the form written to one fixed field of the hash
save_form_FixedField(st, guild, form) ==
    [st EXCEPT ![get_forms_key(guild)]["f2"] = Some(write_redis_args(form))]

\* State::save_form: HSET forms:{guild} {form.id} {form}
save_form(st, guild, form) ==
    [st EXCEPT ![get_forms_key(guild)][form.id] = Some(write_redis_args(form))]

\* DEL of the guild's hash where HDEL of one field is meant
delete_form_DropsGuild(st, guild, id) ==
    [ret |-> IsSome(st[get_forms_key(guild)][id]),
     store |-> [st EXCEPT ![get_forms_key(guild)] = [f \in FormIds |-> None]]]

\* State::delete_form: HDEL forms:{guild} {id}, true iff a field was removed
delete_form(st, guild, id) ==
    [ret |-> IsSome(st[get_forms_key(guild)][id]),
     store |-> [st EXCEPT ![get_forms_key(guild)][id] = None]]

-----------------------------------------------------------------------------
(* The admin commands (commands/forms.rs, commands/fields.rs).  A command  *)
(* that changes a form awaits get_form, changes its own copy and awaits    *)
(* save_form; other commands run between the two awaits.  An admin record  *)
(* is idle, holds the copy a command has loaded ("loaded"), or holds the   *)
(* outcome of the admin's last command ("done").                           *)
(*   stale: the store entry was written or deleted after this copy was     *)
(*          loaded (kept in the outcome: the save was made from a stale    *)
(*          copy)                                                          *)
(*   wrote: the form the command saved, None when it saved nothing         *)
(*   overwritten: the entry was written or deleted again after the save    *)

Loaded(guild, id, form) ==
    [pc |-> "loaded", guild |-> guild, id |-> id, form |-> form, stale |-> FALSE]

Done(guild, id, reply, wrote, stale) ==
    [pc |-> "done", guild |-> guild, id |-> id, reply |-> reply, wrote |-> wrote,
     stale |-> stale, overwritten |-> FALSE]

\* what a write or delete of (guild, id) by admin a means to the other admins
Touch(adm, a, guild, id) ==
    [b \in Admins |->
        IF b = a \/ adm[b].pc = "idle" \/ adm[b].guild # guild \/ adm[b].id # id
        THEN adm[b]
        ELSE IF adm[b].pc = "loaded"
             THEN [adm[b] EXCEPT !.stale = TRUE]
             ELSE [adm[b] EXCEPT !.overwritten = TRUE]]

\* the save made only when the form is still in the store
Finish_KeepsDeleted(a, guild, id, reply, wrote) ==
    /\ store' = IF IsSome(wrote) /\ IsSome(get_form(store, guild, id))
                THEN save_form(store, guild, Unwrap(wrote))
                ELSE store
    /\ admin' = [(IF IsSome(wrote) THEN Touch(admin, a, guild, id) ELSE admin)
                    EXCEPT ![a] = Done(guild, id, reply, wrote,
                                       admin[a].pc = "loaded" /\ admin[a].stale)]

\* the end of a command of admin a on (guild, id): with wrote = Some(form) the
\* form is saved (ctx.data.save_form), and the reply is sent (ctx.say, or
\* on_error for a UserFriendlyError); a reply "Err(..)" is an error the command
\* returned that on_error only logs
Finish(a, guild, id, reply, wrote) ==
    /\ store' = IF IsSome(wrote) THEN save_form(store, guild, Unwrap(wrote)) ELSE store
    /\ admin' = [(IF IsSome(wrote) THEN Touch(admin, a, guild, id) ELSE admin)
                    EXCEPT ![a] = Done(guild, id, reply, wrote,
                                       admin[a].pc = "loaded" /\ admin[a].stale)]

\* forms::validate_destination: the bot's create_private_threads permission in
\* the channel, read from the guild cache
validate_destination(perms, destination) == perms[destination]

\* forms::create_form: validate_destination, Form::new, mention, set_description,
\* set_cooldown, save_form.  perm: whether the bot may create private threads
\* in the destination channel
cmd_create_form(a, guild, id, title, description, destination, mention, cooldown, perm) ==
    /\ admin[a].pc # "loaded"
    /\ id \notin usedIds
    /\ LET new == Form_new(id, title, destination)
           described == IF new.ret = "Ok"
                        THEN set_description([Unwrap(new.form) EXCEPT !.mention = mention],
                                             description)
                        ELSE [ret |-> new.ret, form |-> None]
       IN  IF ~perm
           THEN /\ Finish(a, guild, id, "I do not have permission to create private threads",
                          None)
                /\ usedIds' = usedIds
           ELSE IF described.ret # "Ok"
                THEN /\ Finish(a, guild, id, "Err(ValueTooLong)", None)
                     /\ usedIds' = usedIds \cup (IF new.ret = "Ok" THEN {id} ELSE {})
                ELSE /\ Finish(a, guild, id, "Form was created",
                               Some(set_cooldown(described.form, cooldown)))
                     /\ usedIds' = usedIds \cup {id}
    /\ UNCHANGED <<agg, last, cooldowns, now, run, permissions>>

\* forms::delete_form
cmd_delete_form(a, guild, id) ==
    /\ admin[a].pc # "loaded"
    /\ LET d == delete_form(store, guild, id)
       IN  /\ store' = d.store
           /\ admin' = [Touch(admin, a, guild, id) EXCEPT
                           ![a] = Done(guild, id,
                                       IF d.ret THEN "Form was deleted" ELSE "Unknown form",
                                       None, FALSE)]
    /\ UNCHANGED <<agg, last, usedIds, cooldowns, now, run, permissions>>

\* commands::get_form, the first await of every command that changes a form:
\* the command ends here when the form is not in the store
cmd_get_form(a, guild, id) ==
    /\ admin[a].pc # "loaded"
    /\ LET got == get_form(store, guild, id)
       IN  admin' = [admin EXCEPT ![a] =
                        IF IsSome(got)
                        THEN Loaded(guild, id, Unwrap(got))
                        ELSE Done(guild, id, "Form could not be found", None, FALSE)]
    /\ UNCHANGED <<agg, last, store, usedIds, cooldowns, now, run, permissions>>

\* forms::rename after get_form: set_title, save_form, say
cmd_rename(a, title) ==
    /\ admin[a].pc = "loaded"
    /\ LET r == set_title(admin[a].form, title)
       IN  IF r.ret = "Ok"
           THEN Finish(a, admin[a].guild, admin[a].id, "Form was renamed", Some(r.form))
           ELSE Finish(a, admin[a].guild, admin[a].id, "Err(ValueTooLong)", None)
    /\ UNCHANGED <<agg, last, usedIds, cooldowns, now, run, permissions>>

\* fields::add after get_form: FormField::new, add_field, then save_form and
\* say on Ok, only say on an AddFieldError
cmd_add(a, name, style, add_before) ==
    /\ admin[a].pc = "loaded"
    /\ LET new == FormField_new(name, style)
           r == add_field(admin[a].form, Unwrap(new.field), add_before)
       IN  IF new.ret # "Ok"
           THEN Finish(a, admin[a].guild, admin[a].id, "Err(ValueTooLong)", None)
           ELSE IF r.ret = "Ok"
                THEN Finish(a, admin[a].guild, admin[a].id, "Field was added", Some(r.form))
                ELSE IF r.ret = "Err(IllegalAddBefore)"
                     THEN Finish(a, admin[a].guild, admin[a].id,
                                 "add_before is not valid", None)
                     ELSE Finish(a, admin[a].guild, admin[a].id,
                                 "The maximum amount of fields has been reached", None)
    /\ UNCHANGED <<agg, last, usedIds, cooldowns, now, run, permissions>>

\* the save moved out of the if
cmd_remove_SavesAnyway(a, field) ==
    /\ admin[a].pc = "loaded"
    /\ LET r == remove_field(admin[a].form, field)
       IN  Finish(a, admin[a].guild, admin[a].id,
                  IF r.ret = "true" THEN "Field was removed" ELSE "Unknown field",
                  Some(r.form))
    /\ UNCHANGED <<agg, last, usedIds, cooldowns, now, run, permissions>>

\* fields::remove after get_form
cmd_remove(a, field) ==
    /\ admin[a].pc = "loaded"
    /\ LET r == remove_field(admin[a].form, field)
       IN  IF r.ret = "true"
           THEN Finish(a, admin[a].guild, admin[a].id, "Field was removed", Some(r.form))
           ELSE Finish(a, admin[a].guild, admin[a].id, "Unknown field", None)
    /\ UNCHANGED <<agg, last, usedIds, cooldowns, now, run, permissions>>

\* fields::move_field after get_form: position is 1-based (#[min = 1])
cmd_move_field(a, field, position) ==
    /\ admin[a].pc = "loaded"
    /\ position >= 1
    /\ LET r == move_field(admin[a].form, field, position - 1)
       IN  IF r.ret = "Ok(true)"
           THEN Finish(a, admin[a].guild, admin[a].id, "Field moved", Some(r.form))
           ELSE IF r.ret = "Ok(false)"
                THEN Finish(a, admin[a].guild, admin[a].id, "Unknown field", None)
                ELSE IF r.ret = "Err(IllegalAddBefore)"
                     THEN Finish(a, admin[a].guild, admin[a].id,
                                 "position must be between 1 and the number of fields", None)
                     ELSE Finish(a, admin[a].guild, admin[a].id, "Err(TooManyFields)", None)
    /\ UNCHANGED <<agg, last, usedIds, cooldowns, now, run, permissions>>

\* fields::style through update_field after get_form: the field at the index,
\* or UserFriendlyError "Field could not be found"; then the updater,
\* save_form and say
cmd_style(a, field, style) ==
    /\ admin[a].pc = "loaded"
    /\ IF field < Len(admin[a].form.fields)
       THEN Finish(a, admin[a].guild, admin[a].id, "Field updated",
                   Some([admin[a].form EXCEPT !.fields[field + 1].style = style]))
       ELSE Finish(a, admin[a].guild, admin[a].id, "Field could not be found", None)
    /\ UNCHANGED <<agg, last, usedIds, cooldowns, now, run, permissions>>

(* SpecAdmin: two admins of one guild working on one form, with field      *)
(* positions up to AdminMaxIndex                                           *)

AdminTitles == {"T1", "T2"}
AdminNames == {"A"}
AdminMaxIndex == 2
AdminIndices == 0 .. AdminMaxIndex

AdminInit ==
    /\ agg = None
    /\ last = None
    /\ RestInit

AdminNext ==
    \E a \in Admins :
        \/ \E perm \in BOOLEAN :
              cmd_create_form(a, "g1", "f1", "T1", None, "c1", None, None, perm)
        \/ cmd_delete_form(a, "g1", "f1")
        \/ cmd_get_form(a, "g1", "f1")
        \/ \E title \in AdminTitles : cmd_rename(a, title)
        \/ \E name \in AdminNames, ab \in {None} \cup {Some(i) : i \in AdminIndices} :
              cmd_add(a, name, "Short", ab)
        \/ \E i \in AdminIndices : cmd_remove(a, i)
        \/ \E i \in AdminIndices, pos \in 1 .. AdminMaxIndex + 1 : cmd_move_field(a, i, pos)
        \/ \E i \in AdminIndices : cmd_style(a, i, "Short")

SpecAdmin == AdminInit /\ [][AdminNext]_vars

\* every Form value the admin commands hold or have stored
AdminForms ==
    {Unwrap(get_form(store, k[1], k[2])) :
        k \in {x \in Guilds \X FormIds : IsSome(get_form(store, x[1], x[2]))}}
    \cup {admin[a].form : a \in {x \in Admins : admin[x].pc = "loaded"}}
    \cup {Unwrap(admin[a].wrote) :
            a \in {x \in Admins : admin[x].pc = "done" /\ IsSome(admin[x].wrote)}}

\* C1: whatever create, add, remove and move commands two admins run, and
\* however their loads and saves interleave, every Form in the store or in a
\* command's hands has at most MAX_FIELDS fields.
C1_Capacity == \A f \in AdminForms : Len(f.fields) <= MAX_FIELDS

\* the stored form is full, and an add made from a copy that another admin's
\* save had made stale was refused
C1_Witness ==
    /\ IsSome(get_form(store, "g1", "f1"))
    /\ Len(Unwrap(get_form(store, "g1", "f1")).fields) = MAX_FIELDS
    /\ \E a \in Admins :
          /\ admin[a].pc = "done"
          /\ admin[a].reply = "The maximum amount of fields has been reached"
          /\ admin[a].stale

SuccessReplies ==
    {"Form was renamed", "Field was added", "Field was removed", "Field moved", "Field updated"}

\* admin b loaded (guild, id) before admin a saved it and saved it after a did,
\* and nothing has written the entry since
Raced(a, b) ==
    /\ a # b
    /\ admin[a].pc = "done" /\ admin[b].pc = "done"
    /\ admin[a].guild = admin[b].guild /\ admin[a].id = admin[b].id
    /\ IsSome(admin[a].wrote) /\ IsSome(admin[b].wrote)
    /\ admin[b].stale
    /\ admin[a].overwritten /\ ~admin[b].overwritten

\* C6: when two commands on the same form both load before either saves, both
\* report success and the stored form is the copy the later save wrote; what
\* the earlier command wrote is in the store only if the later copy equals it.
C6_LastWriteWins ==
    \A a, b \in Admins :
        Raced(a, b) =>
            /\ admin[a].reply \in SuccessReplies
            /\ admin[b].reply \in SuccessReplies
            /\ get_form(store, admin[b].guild, admin[b].id) = admin[b].wrote
            /\ (admin[a].wrote # admin[b].wrote
                  => get_form(store, admin[a].guild, admin[a].id) # admin[a].wrote)

\* a rename to T2 and the addition of a field raced; the field was saved last
\* and the stored form has the field and still the title T1
C6_Witness ==
    /\ Raced("a1", "a2")
    /\ admin["a1"].reply = "Form was renamed"
    /\ Unwrap(admin["a1"].wrote).title = "T2"
    /\ admin["a2"].reply = "Field was added"
    /\ Unwrap(get_form(store, "g1", "f1")).title = "T1"
    /\ Len(Unwrap(get_form(store, "g1", "f1")).fields) = 1

-----------------------------------------------------------------------------
(* The Cooldown Tracker (State, state.rs 110-132): one redis key per       *)
(* (guild, form, user) with a time to live in seconds                      *)

\* get_cooldown_key
\* the user left out of the key
get_cooldown_key_IgnoresUser(guild, id, user) == <<guild, id, "u1">>

get_cooldown_key(guild, id, user) == <<guild, id, user>>

\* State::cooldown: TTL of the key; a value <= 0 (no key) is None
cooldown(cd, guild, id, user) ==
    LET ttl == cd[get_cooldown_key(guild, id, user)]
    IN  IF ttl <= 0 THEN None ELSE Some(ttl)

\* SET NX: an existing key keeps its time to live
trigger_cooldown_KeepsExisting(cd, guild, form, user) ==
    IF ~IsSome(form.cooldown)
    THEN [ret |-> "Ok", cooldowns |-> cd]
    ELSE IF Unwrap(form.cooldown) = 0
         THEN [ret |-> "Err", cooldowns |-> cd]
         ELSE [ret |-> "Ok",
               cooldowns |-> [cd EXCEPT ![get_cooldown_key(guild, form.id, user)] =
                                 IF @ > 0 THEN @ ELSE Unwrap(form.cooldown)]]

\* State::trigger_cooldown: nothing for a form without cooldown, else
\* SET key 1 EX secs, which redis refuses with an error for secs = 0
trigger_cooldown(cd, guild, form, user) ==
    IF ~IsSome(form.cooldown)
    THEN [ret |-> "Ok", cooldowns |-> cd]
    ELSE IF Unwrap(form.cooldown) = 0
         THEN [ret |-> "Err", cooldowns |-> cd]
         ELSE [ret |-> "Ok",
               cooldowns |-> [cd EXCEPT ![get_cooldown_key(guild, form.id, user)] =
                                 Unwrap(form.cooldown)]]

\* the count returned by DEL not looked at
clear_cooldown_IgnoresCount(cd, guild, id, user) ==
    [ret |-> TRUE,
     cooldowns |-> [cd EXCEPT ![get_cooldown_key(guild, id, user)] = 0]]

\* State::clear_cooldown: DEL key, true iff the key existed
clear_cooldown(cd, guild, id, user) ==
    [ret |-> cd[get_cooldown_key(guild, id, user)] > 0,
     cooldowns |-> [cd EXCEPT ![get_cooldown_key(guild, id, user)] = 0]]

\* one second passes: every key's time to live goes down, a key at 0 is gone
Elapse(limit) ==
    /\ now < limit
    /\ now' = now + 1
    /\ cooldowns' = [k \in CooldownKeys |-> IF cooldowns[k] > 0 THEN cooldowns[k] - 1 ELSE 0]
    /\ UNCHANGED <<agg, last, store, usedIds, admin, run, permissions>>

Tick == Elapse(MaxTime)

\* the command also deleting the form's cooldown keys
cmd_cooldown_ResetsEntries(a, duration) ==
    /\ admin[a].pc = "loaded"
    /\ Finish(a, admin[a].guild, admin[a].id, "Form cooldown was changed",
              Some(set_cooldown(admin[a].form, duration)))
    /\ cooldowns' = [k \in CooldownKeys |->
                        IF k[1] = admin[a].guild /\ k[2] = admin[a].id THEN 0
                        ELSE cooldowns[k]]
    /\ UNCHANGED <<agg, last, usedIds, now, run, permissions>>

\* forms::cooldown after get_form: set_cooldown, save_form, say
\* (cooldown: the parsed duration in milliseconds, None when left out)
cmd_cooldown(a, duration) ==
    /\ admin[a].pc = "loaded"
    /\ Finish(a, admin[a].guild, admin[a].id, "Form cooldown was changed",
              Some(set_cooldown(admin[a].form, duration)))
    /\ UNCHANGED <<agg, last, usedIds, cooldowns, now, run, permissions>>

\* cooldowns::clear_cooldown
cmd_clear_cooldown(a, guild, id, user) ==
    /\ admin[a].pc # "loaded"
    /\ LET c == clear_cooldown(cooldowns, guild, id, user)
       IN  /\ cooldowns' = c.cooldowns
           /\ admin' = [admin EXCEPT ![a] =
                           Done(guild, id,
                                IF c.ret THEN "Cooldown was cleared"
                                         ELSE "was not on cooldown for this form",
                                None, FALSE)]
    /\ UNCHANGED <<agg, last, store, usedIds, now, run, permissions>>

-----------------------------------------------------------------------------
(* The submission pipeline: event_handler (event_handler.rs 7-54), one run *)
(* per button press.  Every await of the handler is one step; a step whose *)
(* Discord call fails (ok = FALSE) ends the run with the error returned.   *)
(*   remaining: what State::cooldown reports for (form, user) when the     *)
(*              button is pressed; the handler does not ask for it         *)
(*   calls:     the Discord calls the run has made, in order               *)
(*   at:        the time the run reached Dispatched                        *)

End(r, outcome) ==
    [r EXCEPT !.pc = "done", !.outcome = outcome,
              !.at = IF outcome = "Dispatched" THEN now ELSE 0]

Call(r, name) == [r EXCEPT !.calls = Append(@, name)]

\* the answer typed into the input with custom id i
Answer(i) == <<"answer", i>>

\* the text of the second early return pasted into the first
handler_trigger_SameMessage(r, guild, id, user, ok) ==
    /\ run[r].pc = "idle"
    /\ LET got == get_form(store, guild, id)
           started == [run[r] EXCEPT !.guild = guild, !.id = id, !.user = user,
                                     !.form = got,
                                     !.remaining = cooldown(cooldowns, guild, id, user)]
       IN  run' = [run EXCEPT ![r] =
               IF ~IsSome(got) \/ ~IsSome(quick_modal(Unwrap(got)))
               THEN [End(Call(started, "create_response"),
                         IF ~ok THEN "Err"
                         ELSE IF IsSome(got) THEN "Misconfigured" ELSE "NotFound")
                        EXCEPT !.reply = "This form is not correctly configured"]
               ELSE IF ok
                    THEN [Call(started, "quick_modal") EXCEPT !.pc = "prompting"]
                    ELSE End(Call(started, "quick_modal"), "Err")]
    /\ UNCHANGED <<agg, last, store, usedIds, admin, cooldowns, now, permissions>>

\* event_handler lines 8-24: a component interaction with the show_form prefix
\* arrives; get_form, then "no longer exists", "not correctly configured" or
\* the modal is shown
handler_trigger(r, guild, id, user, ok) ==
    /\ run[r].pc = "idle"
    /\ LET got == get_form(store, guild, id)
           started == [run[r] EXCEPT !.guild = guild, !.id = id, !.user = user,
                                     !.form = got,
                                     !.remaining = cooldown(cooldowns, guild, id, user)]
       IN  run' = [run EXCEPT ![r] =
               IF ~IsSome(got)
               THEN [End(Call(started, "create_response"),
                         IF ok THEN "NotFound" ELSE "Err")
                        EXCEPT !.reply = "This form no longer exists"]
               ELSE IF ~IsSome(quick_modal(Unwrap(got)))
                    THEN [End(Call(started, "create_response"),
                              IF ok THEN "Misconfigured" ELSE "Err")
                             EXCEPT !.reply = "This form is not correctly configured"]
                    ELSE IF ok
                         THEN [Call(started, "quick_modal") EXCEPT !.pc = "prompting"]
                         ELSE End(Call(started, "quick_modal"), "Err")]
    /\ UNCHANGED <<agg, last, store, usedIds, admin, cooldowns, now, permissions>>

\* line 24: the user submits the modal, one answer per input
handler_submit(r) ==
    /\ run[r].pc = "prompting"
    /\ LET modal == Unwrap(quick_modal(Unwrap(run[r].form)))
       IN  run' = [run EXCEPT ![r] =
                      [@ EXCEPT !.pc = "collected",
                                !.inputs = [i \in 1 .. Len(modal.inputs) |->
                                               Answer(modal.inputs[i].custom_id)]]]
    /\ UNCHANGED <<agg, last, store, usedIds, admin, cooldowns, now, permissions>>

\* the None of quick_modal answered with a message to the user
handler_cancel_Acknowledges(r) ==
    /\ run[r].pc = "prompting"
    /\ run' = [run EXCEPT ![r] =
                  [End(Call(@, "create_response"), "Cancelled") EXCEPT !.reply = "Cancelled"]]
    /\ UNCHANGED <<agg, last, store, usedIds, admin, cooldowns, now, permissions>>

\* the None of quick_modal waited on again instead of returned on
handler_cancel_KeepsWaiting(r) ==
    /\ run[r].pc = "prompting"
    /\ run' = [run EXCEPT ![r] = [@ EXCEPT !.pc = "dismissed"]]
    /\ UNCHANGED <<agg, last, store, usedIds, admin, cooldowns, now, permissions>>

\* lines 24-26: the modal is dismissed or times out, quick_modal returns None
handler_cancel(r) ==
    /\ run[r].pc = "prompting"
    /\ run' = [run EXCEPT ![r] = End(@, "Cancelled")]
    /\ UNCHANGED <<agg, last, store, usedIds, admin, cooldowns, now, permissions>>

\* line 28: response.interaction.defer_ephemeral
handler_defer(r, ok) ==
    /\ run[r].pc = "collected"
    /\ run' = [run EXCEPT ![r] =
                  IF ok THEN [Call(@, "defer_ephemeral") EXCEPT !.pc = "acknowledged"]
                  ELSE End(Call(@, "defer_ephemeral"), "Err")]
    /\ UNCHANGED <<agg, last, store, usedIds, admin, cooldowns, now, permissions>>

\* the cooldown consumed as soon as the answers are in, before the thread exists
handler_create_thread_ConsumesCooldown(r, ok) ==
    /\ run[r].pc = "acknowledged"
    /\ ok => validate_destination(permissions, Unwrap(run[r].form).destination)
    /\ run' = [run EXCEPT ![r] =
                  IF ok
                  THEN [Call(@, "create_thread") EXCEPT
                           !.pc = "thread_created",
                           !.thread = Some([parent |-> Unwrap(run[r].form).destination,
                                            name |-> run[r].user])]
                  ELSE End(Call(@, "create_thread"), "Err")]
    /\ cooldowns' = trigger_cooldown(cooldowns, run[r].guild, Unwrap(run[r].form),
                                     run[r].user).cooldowns
    /\ UNCHANGED <<agg, last, store, usedIds, admin, now, permissions>>

\* lines 30-37: a private thread named after the member under form.destination;
\* Discord refuses it when the bot lacks the permission in that channel
handler_create_thread(r, ok) ==
    /\ run[r].pc = "acknowledged"
    /\ ok => validate_destination(permissions, Unwrap(run[r].form).destination)
    /\ run' = [run EXCEPT ![r] =
                  IF ok
                  THEN [Call(@, "create_thread") EXCEPT
                           !.pc = "thread_created",
                           !.thread = Some([parent |-> Unwrap(run[r].form).destination,
                                            name |-> run[r].user])]
                  ELSE End(Call(@, "create_thread"), "Err")]
    /\ UNCHANGED <<agg, last, store, usedIds, admin, cooldowns, now, permissions>>

\* the result of send_message dropped instead of returned with ?
handler_send_message_IgnoresFailure(r, ok) ==
    /\ run[r].pc = "thread_created"
    /\ LET fields == Unwrap(run[r].form).fields
           n == IF Len(fields) < Len(run[r].inputs) THEN Len(fields) ELSE Len(run[r].inputs)
           embed == [author |-> run[r].user,
                     fields |-> [i \in 1 .. n |-> apply_to_embed(fields[i], run[r].inputs[i])]]
       IN  run' = [run EXCEPT ![r] =
                      [Call(@, "send_message") EXCEPT
                          !.pc = "message_sent",
                          !.message = IF ok
                                      THEN Some([content |-> <<"This is a nice place">>,
                                                 embed |-> embed])
                                      ELSE None]]
    /\ UNCHANGED <<agg, last, store, usedIds, admin, cooldowns, now, permissions>>

\* lines 40-47: the embed zips the loaded form's fields with the answers; the
\* message content (kept as the sequence of its text parts) is one fixed text
handler_send_message(r, ok) ==
    /\ run[r].pc = "thread_created"
    /\ LET fields == Unwrap(run[r].form).fields
           n == IF Len(fields) < Len(run[r].inputs) THEN Len(fields) ELSE Len(run[r].inputs)
           embed == [author |-> run[r].user,
                     fields |-> [i \in 1 .. n |-> apply_to_embed(fields[i], run[r].inputs[i])]]
       IN  run' = [run EXCEPT ![r] =
                      IF ok
                      THEN [Call(@, "send_message") EXCEPT
                               !.pc = "message_sent",
                               !.message = Some([content |-> <<"This is a nice place">>,
                                                 embed |-> embed])]
                      ELSE End(Call(@, "send_message"), "Err")]
    /\ UNCHANGED <<agg, last, store, usedIds, admin, cooldowns, now, permissions>>

\* line 48: thread.id.add_thread_member(user)
handler_add_thread_member(r, ok) ==
    /\ run[r].pc = "message_sent"
    /\ run' = [run EXCEPT ![r] =
                  IF ok THEN [Call(@, "add_thread_member") EXCEPT !.pc = "member_added"]
                  ELSE End(Call(@, "add_thread_member"), "Err")]
    /\ UNCHANGED <<agg, last, store, usedIds, admin, cooldowns, now, permissions>>

\* the response edited without the await of add_thread_member before it
handler_edit_response_Early(r, ok) ==
    /\ run[r].pc \in {"message_sent", "member_added"}
    /\ run' = [run EXCEPT ![r] =
                  [End(Call(@, "edit_response"), IF ok THEN "Dispatched" ELSE "Err")
                      EXCEPT !.reply = IF ok THEN "thread has been created" ELSE @]]
    /\ UNCHANGED <<agg, last, store, usedIds, admin, cooldowns, now, permissions>>

\* lines 50-53: edit_response "{thread} has been created", then Ok(())
handler_edit_response(r, ok) ==
    /\ run[r].pc = "member_added"
    /\ run' = [run EXCEPT ![r] =
                  [End(Call(@, "edit_response"), IF ok THEN "Dispatched" ELSE "Err")
                      EXCEPT !.reply = IF ok THEN "thread has been created" ELSE @]]
    /\ UNCHANGED <<agg, last, store, usedIds, admin, cooldowns, now, permissions>>

(* Spec: the pipeline with its stores.  The bot starts with a form in the   *)
(* store (one field, or none) and with whatever cooldown key redis holds    *)
(* for (g1, f1, u1); user u1 presses the form's button, an admin changes    *)
(* the form's cooldown, deletes the form or clears the key.                 *)

PipelineForm(fields, cd) ==
    [Unwrap(Form_new("f1", "T1", "c1").form) EXCEPT
        !.fields = fields, !.cooldown = cd,
        !.description = Some("D"), !.mention = Some([kind |-> "Role", id |-> "role"])]

\* runs are named in the order their button presses arrive
Arrived(r) == r = "r1" \/ run["r1"].pc # "idle"

CooldownChoices == {None} \cup {Some(d) : d \in 1 .. MaxCooldown}

Init ==
    /\ agg = None
    /\ last = None
    /\ \E fields \in {<<>>, <<AggField("A")>>}, cd \in CooldownChoices :
          store = save_form([k \in FormsKeys |-> [f \in FormIds |-> None]], "g1",
                            PipelineForm(fields, cd))
    /\ usedIds = {"f1"}
    /\ admin = [a \in Admins |-> IdleAdmin]
    /\ \E ttl \in {0, MaxCooldown} :
          cooldowns = [k \in CooldownKeys |-> IF k = <<"g1", "f1", "u1">> THEN ttl ELSE 0]
    /\ now = 0
    /\ permissions \in [Channels -> BOOLEAN]
    /\ run = [r \in Runs |-> IdleRun]

Next ==
    \/ Tick
    \/ \E r \in Runs, ok \in BOOLEAN :
          /\ Arrived(r)
          /\ handler_trigger(r, "g1", "f1", "u1", ok)
    \/ \E r \in Runs : handler_submit(r)
    \/ \E r \in Runs : handler_cancel(r)
    \/ \E r \in Runs, ok \in BOOLEAN : handler_defer(r, ok)
    \/ \E r \in Runs, ok \in BOOLEAN : handler_create_thread(r, ok)
    \/ \E r \in Runs, ok \in BOOLEAN : handler_send_message(r, ok)
    \/ \E r \in Runs, ok \in BOOLEAN : handler_add_thread_member(r, ok)
    \/ \E r \in Runs, ok \in BOOLEAN : handler_edit_response(r, ok)
    \/ cmd_delete_form("a1", "g1", "f1")
    \/ cmd_get_form("a1", "g1", "f1")
    \/ \E d \in {None} \cup {Some(1000 * s) : s \in {0, MaxCooldown}} : cmd_cooldown("a1", d)
    \/ cmd_clear_cooldown("a1", "g1", "f1", "u1")

Spec == Init /\ [][Next]_vars

Range(seq) == {seq[i] : i \in DOMAIN seq}

Dispatched(r) == run[r].pc = "done" /\ run[r].outcome = "Dispatched"

RunKey(r) == get_cooldown_key(run[r].guild, run[r].id, run[r].user)

\* C2 (as claimed): two runs of one user on one form that both loaded the
\* form with cooldown d and both reached Dispatched did so at least d seconds
\* apart.  The handler never asks the Cooldown Tracker, so this fails.
C2_MinimumInterval ==
    \A r1, r2 \in Runs :
        (/\ r1 # r2
         /\ Dispatched(r1) /\ Dispatched(r2)
         /\ RunKey(r1) = RunKey(r2)
         /\ IsSome(Unwrap(run[r1].form).cooldown)
         /\ Unwrap(run[r1].form).cooldown = Unwrap(run[r2].form).cooldown)
        => LET d == Unwrap(Unwrap(run[r1].form).cooldown)
               gap == IF run[r1].at >= run[r2].at THEN run[r1].at - run[r2].at
                      ELSE run[r2].at - run[r1].at
           IN  gap >= d

\* C3 (as claimed, for a stored form that has a field): a run whose button
\* press came while the Cooldown Tracker reported a remaining time for (form,
\* user) ended Blocked: the modal was not shown and no thread or message was
\* made.  The handler shows the modal without asking the tracker.
C3_BlockedWhileOnCooldown ==
    \A r \in Runs :
        (/\ run[r].pc # "idle"
         /\ IsSome(run[r].remaining)
         /\ IsSome(run[r].form)
         /\ Len(Unwrap(run[r].form).fields) > 0)
        => /\ run[r].pc = "done"
           /\ run[r].outcome = "Blocked"
           /\ "quick_modal" \notin Range(run[r].calls)
           /\ run[r].thread = None
           /\ run[r].message = None

\* C4 (as claimed): when a run has reached Dispatched with a loaded copy whose
\* cooldown is d, the cooldown key of (guild, form, submitter) exists with a
\* time to live of d (looked at before the clock moves on).  The handler
\* returns without calling trigger_cooldown.
C4_CooldownWrittenAfterDispatch ==
    \A r \in Runs :
        (Dispatched(r) /\ IsSome(Unwrap(run[r].form).cooldown) /\ now = run[r].at)
        => cooldowns[RunKey(r)] = Unwrap(Unwrap(run[r].form).cooldown)

\* C5: a step of a pipeline run changes a cooldown key only if it is the step
\* that completes a successful dispatch; a run that ends NotFound,
\* Misconfigured, Cancelled or with a failed Discord call changes none.
C5_CooldownOnlyAfterDispatch ==
    [][\A r \in Runs :
          (run'[r] # run[r] /\ cooldowns' # cooldowns) => run'[r].outcome = "Dispatched"]_vars

\* a run of a form with a cooldown ended because create_thread failed, and
\* (g1, f1, u1) has no cooldown key
C5_Witness ==
    \E r \in Runs :
        /\ run[r].pc = "done"
        /\ run[r].outcome = "Err"
        /\ run[r].calls = <<"quick_modal", "defer_ephemeral", "create_thread">>
        /\ IsSome(Unwrap(run[r].form).cooldown)
        /\ cooldowns[RunKey(r)] = 0

\* C7 (as claimed): a run that reached Dispatched made the thread under the
\* destination of the copy it loaded and posted a message with that copy's
\* fields, mention and description, whatever happened to the stored form
\* meanwhile.  The handler's message has neither mention nor description.
C7_DispatchUsesLoadedCopy ==
    \A r \in Runs :
        Dispatched(r)
        => LET f == Unwrap(run[r].form)
               m == Unwrap(run[r].message)
           IN  /\ Unwrap(run[r].thread).parent = f.destination
               /\ [i \in 1 .. Len(m.embed.fields) |-> m.embed.fields[i].name]
                     = [i \in 1 .. Len(f.fields) |-> f.fields[i].name]
               /\ (IsSome(f.mention) => Unwrap(f.mention).id \in Range(m.content))
               /\ (IsSome(f.description) => Unwrap(f.description) \in Range(m.content))

Names(fields) == [i \in 1 .. Len(fields) |-> fields[i].name]

\* C8: move_field(i, d) with i and d both below the field count n returns
\* Ok(true), keeps n fields, puts the field that was at i at position d and
\* keeps the other fields in their previous relative order; with i = d the
\* order is unchanged.
C8_MoveFieldInBounds ==
    (/\ last.op = "move_field"
     /\ Unwrap(last.index) < Len(last.before.fields)
     /\ Unwrap(last.arg) < Len(last.before.fields))
    => LET i == Unwrap(last.index)
           d == Unwrap(last.arg)
       IN  /\ last.ret = "Ok(true)"
           /\ Len(agg.fields) = Len(last.before.fields)
           /\ agg.fields[d + 1] = last.before.fields[i + 1]
           /\ VecRemove(agg.fields, d) = VecRemove(last.before.fields, i)
           /\ (i = d => agg.fields = last.before.fields)

\* the unit test move_backward: move_field(4, 0) on F0..F4 gives F4,F0,F1,F2,F3
C8_Witness ==
    /\ last.op = "move_field"
    /\ last.index = Some(4)
    /\ last.arg = Some(0)
    /\ Names(last.before.fields) = <<"F0", "F1", "F2", "F3", "F4">>
    /\ Names(agg.fields) = <<"F4", "F0", "F1", "F2", "F3">>
    /\ last.ret = "Ok(true)"

\* C9: add_field on a form that has MAX_FIELDS fields returns TooManyFields for
\* every field and every add_before (None, in range or out of range) and
\* leaves the form as it was.
C9_AddFieldToFullForm ==
    (last.op = "add_field" /\ Len(last.before.fields) = MAX_FIELDS)
    => (last.ret = "Err(TooManyFields)" /\ agg = last.before)

\* a sixth field offered with an add_before beyond the field count
C9_Witness ==
    /\ last.op = "add_field"
    /\ Len(last.before.fields) = MAX_FIELDS
    /\ last.arg = Some(MAX_FIELDS + 1)
    /\ last.ret = "Err(TooManyFields)"
    /\ agg.fields = last.before.fields

\* C10: add_field with add_before = Some(i) on a form with n < MAX_FIELDS fields:
\* for i > n it returns IllegalAddBefore and leaves the form as it was; for
\* i <= n it returns Ok, the new field is at position i and the earlier fields
\* keep their relative order.
C10_AddFieldBefore ==
    (last.op = "add_field" /\ Len(last.before.fields) < MAX_FIELDS /\ IsSome(last.arg))
    => LET i == Unwrap(last.arg)
           n == Len(last.before.fields)
       IN  IF i > n
           THEN last.ret = "Err(IllegalAddBefore)" /\ agg = last.before
           ELSE /\ last.ret = "Ok"
                /\ Len(agg.fields) = n + 1
                /\ agg.fields[i + 1] = Unwrap(last.field)
                /\ VecRemove(agg.fields, i) = last.before.fields

\* add_before equal to the field count of a non-empty form: the field is appended
C10_Witness ==
    /\ last.op = "add_field"
    /\ Len(last.before.fields) = 2
    /\ last.arg = Some(2)
    /\ last.ret = "Ok"
    /\ agg.fields = Append(last.before.fields, Unwrap(last.field))

\* C11: move_field(i, d) with i below the field count n and d >= n returns
\* IllegalAddBefore and leaves the form as it was: the field at i is still
\* there.
C11_MoveFieldTooFar ==
    (/\ last.op = "move_field"
     /\ Unwrap(last.index) < Len(last.before.fields)
     /\ Unwrap(last.arg) >= Len(last.before.fields))
    => /\ last.ret = "Err(IllegalAddBefore)"
       /\ agg = last.before
       /\ agg.fields[Unwrap(last.index) + 1] = last.before.fields[Unwrap(last.index) + 1]

\* the unit test move_too_far: move_field(0, 10) on F0..F4
C11_Witness ==
    /\ last.op = "move_field"
    /\ last.index = Some(0)
    /\ last.arg = Some(MOVE_TOO_FAR)
    /\ Names(last.before.fields) = <<"F0", "F1", "F2", "F3", "F4">>
    /\ last.ret = "Err(IllegalAddBefore)"
    /\ Names(agg.fields) = <<"F0", "F1", "F2", "F3", "F4">>

\* C12: move_field(i, d) with i at or beyond the field count returns Ok(false)
\* for every d, also a d that is itself out of bounds, and leaves the form as
\* it was.
C12_MoveFieldUnknownIndex ==
    (last.op = "move_field" /\ Unwrap(last.index) >= Len(last.before.fields))
    => (last.ret = "Ok(false)" /\ agg = last.before)

\* index and destination both out of bounds on a two-field form
C12_Witness ==
    /\ last.op = "move_field"
    /\ Len(last.before.fields) = 2
    /\ last.index = Some(2)
    /\ last.arg = Some(MOVE_TOO_FAR)
    /\ last.ret = "Ok(false)"
    /\ agg.fields = last.before.fields

\* C13: remove_field(i) returns true exactly when i is below the field count;
\* on false the form is as it was, on true the field sequence is the previous
\* one without its element i.
C13_RemoveField ==
    last.op = "remove_field"
    => LET i == Unwrap(last.index)
           n == Len(last.before.fields)
       IN  /\ (last.ret = "true") = (i < n)
           /\ last.ret \in {"true", "false"}
           /\ (last.ret = "false" => agg = last.before)
           /\ (last.ret = "true" =>
                 /\ Len(agg.fields) = n - 1
                 /\ \A k \in 1 .. n - 1 :
                       agg.fields[k] = last.before.fields[IF k <= i THEN k ELSE k + 1]
                 /\ agg = [last.before EXCEPT !.fields = agg.fields])

\* the middle one of three distinct fields removed
C13_Witness ==
    /\ last.op = "remove_field"
    /\ last.index = Some(1)
    /\ Names(last.before.fields) = <<"F0", "F1", "F2">>
    /\ last.ret = "true"
    /\ Names(agg.fields) = <<"F0", "F2">>

\* C14: on a form with n < MAX_FIELDS fields, add_field(f, Some(n)) succeeds
\* and gives what add_field(f, None) gives on the same form: the previous
\* fields followed by f.
C14_AddBeforeLenIsAppend ==
    (/\ last.op = "add_field"
     /\ Len(last.before.fields) < MAX_FIELDS
     /\ last.arg = Some(Len(last.before.fields)))
    => /\ last.ret = "Ok"
       /\ [ret |-> last.ret, form |-> agg] = add_field(last.before, Unwrap(last.field), None)
       /\ agg.fields = Append(last.before.fields, Unwrap(last.field))

\* add_before = 4 on a four-field form, the last add the capacity allows
C14_Witness ==
    /\ last.op = "add_field"
    /\ Len(last.before.fields) = MAX_FIELDS - 1
    /\ last.arg = Some(MAX_FIELDS - 1)
    /\ last.ret = "Ok"
    /\ Len(agg.fields) = MAX_FIELDS
    /\ agg.fields[MAX_FIELDS] = Unwrap(last.field)

-----------------------------------------------------------------------------
(* The pipeline's terminal paths                                           *)

\* C15: a run that loaded a stored form without fields is over at once:
\* quick_modal gave None, the only call made is the reply "This form is not
\* correctly configured", no modal was shown and no thread or message made.
\* The run ends Misconfigured (Err when Discord refused the reply).
C15_ZeroFieldsMisconfigured ==
    \A r \in Runs :
        (run[r].pc # "idle" /\ IsSome(run[r].form) /\ Len(Unwrap(run[r].form).fields) = 0)
        => /\ quick_modal(Unwrap(run[r].form)) = None
           /\ run[r].pc = "done"
           /\ run[r].outcome \in {"Misconfigured", "Err"}
           /\ run[r].reply = "This form is not correctly configured"
           /\ run[r].calls = <<"create_response">>
           /\ run[r].thread = None
           /\ run[r].message = None

\* the button of a stored form without fields was pressed and the reply delivered
C15_Witness ==
    \E r \in Runs :
        /\ run[r].outcome = "Misconfigured"
        /\ IsSome(run[r].form)
        /\ Unwrap(run[r].form).fields = <<>>
        /\ IsSome(get_form(store, "g1", "f1"))
        /\ run[r].calls = <<"create_response">>

\* what the step that starts run r found in the store
Started(r) == run[r].pc = "idle" /\ run'[r].pc # "idle"

\* C16: a button press whose form is not in the store ends the run in that
\* same step: the only call is the reply "This form no longer exists" (not the
\* text of the configuration error), no modal, thread or message, and no
\* cooldown key is touched.  The run ends NotFound (Err when Discord refused
\* the reply).
C16_AbsentFormNotFound ==
    [][\A r \in Runs :
          (Started(r) /\ get_form(store, run'[r].guild, run'[r].id) = None)
          => /\ run'[r].pc = "done"
             /\ run'[r].outcome \in {"NotFound", "Err"}
             /\ run'[r].reply = "This form no longer exists"
             /\ run'[r].reply # "This form is not correctly configured"
             /\ run'[r].calls = <<"create_response">>
             /\ run'[r].thread = None
             /\ run'[r].message = None
             /\ cooldowns' = cooldowns]_vars

\* the form was deleted, then its button was pressed
C16_Witness ==
    \E r \in Runs :
        /\ run[r].outcome = "NotFound"
        /\ run[r].form = None
        /\ get_form(store, "g1", "f1") = None
        /\ run[r].reply = "This form no longer exists"

\* C17 (as claimed): a run whose form's destination does not grant the bot
\* the permission to create private threads ended Misconfigured without
\* showing the modal or creating a thread.  The handler makes no such check.
C17_DestinationVerifiedOnTrigger ==
    \A r \in Runs :
        (/\ run[r].pc # "idle"
         /\ IsSome(run[r].form)
         /\ ~validate_destination(permissions, Unwrap(run[r].form).destination))
        => /\ run[r].pc = "done"
           /\ run[r].outcome = "Misconfigured"
           /\ "quick_modal" \notin Range(run[r].calls)
           /\ run[r].thread = None

\* C18: a run whose modal was dismissed or timed out is Cancelled: it made no
\* call but the modal, sent no reply, made no thread or message, its step
\* touched no cooldown key, and the run never changes again.
C18_Cancelled ==
    /\ [](\A r \in Runs :
            run[r].outcome = "Cancelled"
            => /\ run[r].pc = "done"
               /\ run[r].calls = <<"quick_modal">>
               /\ run[r].reply = ""
               /\ run[r].inputs = <<>>
               /\ run[r].thread = None
               /\ run[r].message = None)
    /\ [][\A r \in Runs :
            /\ run[r].outcome = "Cancelled" => run'[r] = run[r]
            /\ (run'[r].outcome = "Cancelled" /\ run'[r] # run[r]) => cooldowns' = cooldowns]_vars

\* a run of a form with a cooldown was cancelled and (g1, f1, u1) has no key
C18_Witness ==
    \E r \in Runs :
        /\ run[r].outcome = "Cancelled"
        /\ IsSome(Unwrap(run[r].form).cooldown)
        /\ cooldowns[RunKey(r)] = 0

\* C19 (as claimed): a Dispatched run acknowledged, created the thread,
\* granted the submitter access, posted the message and updated the
\* acknowledgement, in that order.
C19_OrderAsClaimed ==
    \A r \in Runs :
        Dispatched(r)
        => run[r].calls = <<"quick_modal", "defer_ephemeral", "create_thread",
                            "add_thread_member", "send_message", "edit_response">>

\* the calls of event_handler after the modal, in the order of its awaits
PipelineOrder ==
    <<"quick_modal", "defer_ephemeral", "create_thread", "send_message",
      "add_thread_member", "edit_response">>

\* C19 (amended): a Dispatched run made each call exactly once, in the order
\* acknowledge, create the thread, post the message, grant the submitter
\* access, update the acknowledgement.
C19_OrderOfSteps ==
    \A r \in Runs :
        Dispatched(r)
        => /\ run[r].calls = PipelineOrder
           /\ IsSome(run[r].thread)
           /\ IsSome(run[r].message)
           /\ run[r].reply = "thread has been created"

\* both runs were dispatched, each with its own six calls
C19_Witness ==
    /\ Dispatched("r1")
    /\ Dispatched("r2")
    /\ run["r1"].calls = PipelineOrder
    /\ run["r2"].calls = PipelineOrder

DispatcherCalls == {"create_thread", "send_message", "add_thread_member"}

\* C20: a run in which create_thread, send_message or add_thread_member failed
\* is over with the error returned: its calls are the handler's calls up to
\* the failed one, each made once; edit_response was not called; what the
\* earlier calls made (the thread, the message) is still there; no later call
\* was made after a failed one; the failing step touched no cooldown key and
\* the run never changes again.
C20_DispatchFailurePropagates ==
    /\ [](\A r \in Runs :
            /\ (Len(run[r].calls) > 0 /\ run[r].calls[1] = "quick_modal")
                  => run[r].calls = SubSeq(PipelineOrder, 1, Len(run[r].calls))
            /\ "send_message" \in Range(run[r].calls) => IsSome(run[r].thread)
            /\ "add_thread_member" \in Range(run[r].calls) => IsSome(run[r].message)
            /\ (/\ run[r].outcome = "Err"
                /\ Len(run[r].calls) > 0
                /\ run[r].calls[Len(run[r].calls)] \in DispatcherCalls)
               => LET failed == run[r].calls[Len(run[r].calls)]
                  IN  /\ run[r].pc = "done"
                      /\ "edit_response" \notin Range(run[r].calls)
                      /\ run[r].reply = ""
                      /\ IsSome(run[r].thread) = (failed # "create_thread")
                      /\ IsSome(run[r].message) = (failed = "add_thread_member"))
    /\ [][\A r \in Runs :
            /\ run[r].pc = "done" => run'[r] = run[r]
            /\ (run'[r].outcome = "Err" /\ run'[r] # run[r]) => cooldowns' = cooldowns]_vars

\* add_thread_member failed after the thread was made and the message posted
C20_Witness ==
    \E r \in Runs :
        /\ run[r].pc = "done"
        /\ run[r].outcome = "Err"
        /\ run[r].calls = SubSeq(PipelineOrder, 1, 5)
        /\ IsSome(run[r].thread)
        /\ IsSome(run[r].message)
        /\ IsSome(Unwrap(run[r].form).cooldown)
        /\ cooldowns[RunKey(r)] = 0

-----------------------------------------------------------------------------
(* SpecStore: the Form Store on its own.  A form built by Form::new,       *)
(* set_description, set_cooldown, the mention assignment and add_field is  *)
(* saved to and deleted from two guilds, next to a second form with        *)
(* another id.  last[guild, id] is the last save or delete of that entry.  *)

StoreFields ==
    {[AggField("A") EXCEPT !.style = st, !.placeholder = ph, !.min_length = mn,
                           !.max_length = mx, !.required = rq, !.inline = ~rq] :
        st \in {"Short", "Paragraph"}, ph \in {None, Some("P")}, mn \in {None, Some(1)},
        mx \in {None, Some(FIELD_RESPONSE_MAX_LENGTH)}, rq \in BOOLEAN}

StoreFieldSeqs ==
    {<<>>} \cup {<<f>> : f \in StoreFields} \cup {<<AggField("B"), f>> : f \in StoreFields}

StoreMentions == {None, Some([kind |-> "Role", id |-> "1"]), Some([kind |-> "User", id |-> "1"])}

\* the form of id built by the aggregate's operations
StoreForm(id, description, mention, duration, fields) ==
    LET new == Unwrap(Form_new(id, "T1", "c1").form)
        described == set_description([new EXCEPT !.mention = mention], description).form
        cooled == set_cooldown(described, duration)
        Add[n \in 0 .. Len(fields)] ==
            IF n = 0 THEN cooled ELSE add_field(Add[n - 1], fields[n], None).form
    IN  Add[Len(fields)]

OtherForm == StoreForm("f2", None, None, None, <<AggField("O")>>)

StoreEntries == Guilds \X FormIds

StoreInit ==
    /\ agg \in {StoreForm("f1", d, m, c, fs) :
                  d \in {None, Some("D")}, m \in StoreMentions,
                  c \in {None, Some(1000), Some(1000 * MaxCooldown + 500)},
                  fs \in StoreFieldSeqs}
    /\ last = [e \in StoreEntries |-> [op |-> "none"]]
    /\ RestInit

StoreSave(guild, form) ==
    /\ store' = save_form(store, guild, form)
    /\ last' = [last EXCEPT ![<<guild, form.id>>] = [op |-> "save", form |-> form]]
    /\ UNCHANGED <<agg, usedIds, admin, cooldowns, now, permissions, run>>

StoreDelete(guild, id) ==
    /\ LET d == delete_form(store, guild, id)
       IN  /\ store' = d.store
           /\ last' = [last EXCEPT ![<<guild, id>>] = [op |-> "delete", ret |-> d.ret]]
    /\ UNCHANGED <<agg, usedIds, admin, cooldowns, now, permissions, run>>

StoreNext ==
    \/ \E g \in Guilds : StoreSave(g, agg)
    \/ \E g \in Guilds : StoreSave(g, OtherForm)
    \/ \E g \in Guilds, id \in FormIds : StoreDelete(g, id)

SpecStore == StoreInit /\ [][StoreNext]_vars

\* C21: while the last write of an entry is a save, get_form of that entry
\* gives a form equal to the saved one in id, title, description, fields (with
\* every attribute of every field), destination, mention and cooldown.
C21_StoreRoundTrip ==
    \A e \in StoreEntries :
        last[e].op = "save"
        => LET got == get_form(store, e[1], e[2])
               f == last[e].form
           IN  /\ IsSome(got)
               /\ Unwrap(got).id = f.id /\ f.id = e[2]
               /\ Unwrap(got).title = f.title
               /\ Unwrap(got).description = f.description
               /\ Unwrap(got).fields = f.fields
               /\ Unwrap(got).destination = f.destination
               /\ Unwrap(got).mention = f.mention
               /\ Unwrap(got).cooldown = f.cooldown
               /\ got = Some(f)

\* a form with description, user mention, cooldown and two fields, the second
\* a paragraph with placeholder and both length bounds, is in g1 after other
\* writes to g2 and to f2
C21_Witness ==
    /\ last[<<"g1", "f1">>].op = "save"
    /\ last[<<"g2", "f1">>].op = "delete"
    /\ last[<<"g1", "f2">>].op = "save"
    /\ agg.description = Some("D")
    /\ agg.mention = Some([kind |-> "User", id |-> "1"])
    /\ agg.cooldown = Some(MaxCooldown)
    /\ Len(agg.fields) = 2
    /\ agg.fields[2].style = "Paragraph"
    /\ agg.fields[2].placeholder = Some("P")
    /\ agg.fields[2].min_length = Some(1)
    /\ agg.fields[2].max_length = Some(FIELD_RESPONSE_MAX_LENGTH)
    /\ get_form(store, "g1", "f1") = Some(agg)

\* C22: delete_form returns true exactly when the entry was stored; after it
\* get_form of the entry gives None for as long as no save of it follows;
\* every other entry is as before; a delete right after a delete of the same
\* entry returns false.
C22_Delete ==
    /\ [](\A e \in StoreEntries : last[e].op = "delete" => get_form(store, e[1], e[2]) = None)
    /\ [][\A e \in StoreEntries :
            (last'[e] # last[e] /\ last'[e].op = "delete")
            => /\ last'[e].ret = IsSome(get_form(store, e[1], e[2]))
               /\ get_form(store', e[1], e[2]) = None
               /\ \A o \in StoreEntries \ {e} :
                     get_form(store', o[1], o[2]) = get_form(store, o[1], o[2])
               /\ (last[e].op = "delete" => last'[e].ret = FALSE)]_vars

\* f1 was deleted from g1 with true while f2 of g1 and f1 of g2 stayed stored
C22_Witness ==
    /\ last[<<"g1", "f1">>] = [op |-> "delete", ret |-> TRUE]
    /\ get_form(store, "g1", "f1") = None
    /\ get_form(store, "g1", "f2") = Some(OtherForm)
    /\ get_form(store, "g2", "f1") = Some(agg)

-----------------------------------------------------------------------------
(* SpecTracker: the Cooldown Tracker on its own, with the clock, next to   *)
(* one form saved to and deleted from either guild.  last is the last      *)
(* operation: its arguments, what State::cooldown gave before it (before), *)
(* the form's cooldown in seconds (d), the time (at), its result, and the  *)
(* guilds save_form has been called for so far (saved).                    *)

TrackerMaxTime == MaxCooldown + 1

TrackerKeys ==
    {<<"g1", "f1", "u1">>, <<"g1", "f1", "u2">>, <<"g1", "f2", "u1">>, <<"g2", "f1", "u1">>}

\* the durations the cooldown command can hand to set_cooldown, in milliseconds
TrackerDurations == {None, Some(0), Some(500)} \cup {Some(1000 * d) : d \in 1 .. MaxCooldown}

TrackerForm(id, duration) == set_cooldown(Unwrap(Form_new(id, "T1", "c1").form), duration)

TrackerInit ==
    /\ agg = None
    /\ last = [op |-> "none", guild |-> "", id |-> "", user |-> "", duration |-> None,
               d |-> None, before |-> None, at |-> 0, ret |-> "", saved |-> {}]
    /\ RestInit

TrackerTrigger(key, duration) ==
    LET form == TrackerForm(key[2], duration)
        r == trigger_cooldown(cooldowns, key[1], form, key[3])
    IN  /\ cooldowns' = r.cooldowns
        /\ last' = [last EXCEPT !.op = "trigger", !.guild = key[1], !.id = key[2],
                                !.user = key[3], !.duration = duration, !.d = form.cooldown,
                                !.before = cooldown(cooldowns, key[1], key[2], key[3]),
                                !.at = now, !.ret = r.ret]
        /\ UNCHANGED <<agg, store, usedIds, admin, now, permissions, run>>

TrackerClear(key) ==
    LET r == clear_cooldown(cooldowns, key[1], key[2], key[3])
    IN  /\ cooldowns' = r.cooldowns
        /\ last' = [last EXCEPT !.op = "clear", !.guild = key[1], !.id = key[2],
                                !.user = key[3], !.duration = None, !.d = None,
                                !.before = cooldown(cooldowns, key[1], key[2], key[3]),
                                !.at = now, !.ret = IF r.ret THEN "true" ELSE "false"]
        /\ UNCHANGED <<agg, store, usedIds, admin, now, permissions, run>>

TrackerSave(guild) ==
    /\ store' = save_form(store, guild, TrackerForm("f1", None))
    /\ last' = [last EXCEPT !.op = "save", !.guild = guild, !.id = "f1", !.user = "",
                            !.duration = None, !.d = None, !.before = None, !.at = now,
                            !.ret = "Ok", !.saved = @ \cup {guild}]
    /\ UNCHANGED <<agg, usedIds, admin, cooldowns, now, permissions, run>>

TrackerDelete(guild) ==
    LET r == delete_form(store, guild, "f1")
    IN  /\ store' = r.store
        /\ last' = [last EXCEPT !.op = "delete", !.guild = guild, !.id = "f1", !.user = "",
                                !.duration = None, !.d = None, !.before = None, !.at = now,
                                !.ret = IF r.ret THEN "true" ELSE "false"]
        /\ UNCHANGED <<agg, usedIds, admin, cooldowns, now, permissions, run>>

TrackerNext ==
    \/ Elapse(TrackerMaxTime)
    \/ \E key \in TrackerKeys, duration \in TrackerDurations : TrackerTrigger(key, duration)
    \/ \E key \in TrackerKeys : TrackerClear(key)
    \/ \E g \in Guilds : TrackerSave(g)
    \/ \E g \in Guilds : TrackerDelete(g)

SpecTracker == TrackerInit /\ [][TrackerNext]_vars

LastKey == <<last.guild, last.id, last.user>>

\* C23: after trigger_cooldown for a form with cooldown d > 0, whatever the
\* key held before, State::cooldown of the key gives Some(s) with 0 < s <= d at
\* every time before d seconds have passed, and None from then on (while no
\* trigger or clear follows).
C23_RemainingAfterTrigger ==
    (last.op = "trigger" /\ IsSome(last.d))
    => LET d == Unwrap(last.d)
           rem == cooldown(cooldowns, last.guild, last.id, last.user)
       IN  /\ d > 0
           /\ last.ret = "Ok"
           /\ IF now < last.at + d
              THEN IsSome(rem) /\ Unwrap(rem) > 0 /\ Unwrap(rem) <= d
                   /\ Unwrap(rem) = last.at + d - now
              ELSE rem = None

\* a key with one second left was triggered again with the longest cooldown
\* and still has time left a second later
C23_Witness ==
    /\ last.op = "trigger"
    /\ last.before = Some(1)
    /\ last.d = Some(MaxCooldown)
    /\ now = last.at + 1
    /\ cooldown(cooldowns, last.guild, last.id, last.user) = Some(MaxCooldown - 1)

\* C24: clear_cooldown returns true exactly when the key had time left; after
\* it State::cooldown of the key gives None; a clear right after a clear of
\* the same key returns false.
C24_Clear ==
    /\ [](last.op = "clear" =>
            /\ (last.ret = "true") = IsSome(last.before)
            /\ last.ret \in {"true", "false"}
            /\ cooldown(cooldowns, last.guild, last.id, last.user) = None)
    /\ [][(last'.op = "clear" /\ last' # last)
            => /\ (last'.ret = "true")
                    = IsSome(cooldown(cooldowns, last'.guild, last'.id, last'.user))
               /\ cooldown(cooldowns', last'.guild, last'.id, last'.user) = None
               /\ (last.op = "clear" /\ LastKey = <<last'.guild, last'.id, last'.user>>
                     => last'.ret = "false")]_vars

\* the cooldown of (g1, f1, u2) was cleared a second after it was triggered
C24_Witness ==
    /\ last.op = "clear"
    /\ LastKey = <<"g1", "f1", "u2">>
    /\ last.before = Some(MaxCooldown - 1)
    /\ last.ret = "true"
    /\ last.at = 1
    /\ cooldowns[<<"g1", "f1", "u2">>] = 0

\* C25: trigger_cooldown for a form whose cooldown was set from no duration,
\* from zero or from less than a second returns Ok and leaves every key as it
\* was.
C25_TriggerWithoutCooldown ==
    [][(/\ last'.op = "trigger"
        /\ last' # last
        /\ (last'.duration = None \/ Unwrap(last'.duration) < 1000))
       => /\ last'.d = None
          /\ last'.ret = "Ok"
          /\ cooldowns' = cooldowns]_vars

\* a zero duration, triggered on a key that has time left
C25_Witness ==
    /\ last.op = "trigger"
    /\ last.duration = Some(0)
    /\ last.ret = "Ok"
    /\ IsSome(last.before)
    /\ cooldown(cooldowns, last.guild, last.id, last.user) = last.before

\* C27: a trigger or clear of one key leaves the time to live of every other
\* (guild, form, user) key as it was.
C27_KeysIndependent ==
    [][(last'.op \in {"trigger", "clear"} /\ last' # last)
       => \A k \in CooldownKeys \ {<<last'.guild, last'.id, last'.user>>} :
             /\ cooldowns'[k] = cooldowns[k]
             /\ cooldown(cooldowns', k[1], k[2], k[3]) = cooldown(cooldowns, k[1], k[2], k[3])]_vars

\* u1 is on cooldown for f1 in g1 and was just cleared for f2; u2 is not on
\* cooldown for f1
C27_Witness ==
    /\ last.op = "clear"
    /\ LastKey = <<"g1", "f2", "u1">>
    /\ last.ret = "true"
    /\ cooldown(cooldowns, "g1", "f1", "u1") = Some(MaxCooldown)
    /\ cooldown(cooldowns, "g1", "f1", "u2") = None

\* C28: a save, delete, trigger or clear for one guild leaves get_form,
\* get_form_ids and State::cooldown of every other guild as they were, and
\* get_form gives None in a guild the form was never saved to.
C28_GuildIsolation ==
    /\ [](\A g \in Guilds \ last.saved : get_form(store, g, "f1") = None)
    /\ [][(last'.op \in {"save", "delete", "trigger", "clear"} /\ last' # last)
            => \A g \in Guilds \ {last'.guild} :
                  /\ \A id \in FormIds : get_form(store', g, id) = get_form(store, g, id)
                  /\ get_form_ids(store', g) = get_form_ids(store, g)
                  /\ \A id \in FormIds, u \in Users :
                        cooldown(cooldowns', g, id, u) = cooldown(cooldowns, g, id, u)]_vars

\* f1 is stored in g1 only and u1 is on cooldown for it in g2 only
C28_Witness ==
    /\ last.saved = {"g1"}
    /\ IsSome(get_form(store, "g1", "f1"))
    /\ get_form(store, "g2", "f1") = None
    /\ get_form_ids(store, "g2") = {}
    /\ cooldown(cooldowns, "g2", "f1", "u1") = Some(MaxCooldown)
    /\ cooldown(cooldowns, "g1", "f1", "u1") = None

\* C26: the step in which the cooldown command writes the form and replies
\* "Form cooldown was changed" leaves the time to live of every cooldown key
\* as it was, whatever the new duration of the form is.
C26_IssuedEntriesKept ==
    [][(/\ admin' # admin
        /\ admin'["a1"].pc = "done"
        /\ admin'["a1"].reply = "Form cooldown was changed")
       => \A k \in CooldownKeys :
             /\ cooldowns'[k] = cooldowns[k]
             /\ cooldown(cooldowns', k[1], k[2], k[3]) = cooldown(cooldowns, k[1], k[2], k[3])]_vars

\* the form's cooldown removed while a user has the full time left
C26_Witness ==
    /\ admin["a1"].pc = "done"
    /\ admin["a1"].reply = "Form cooldown was changed"
    /\ IsSome(admin["a1"].wrote)
    /\ Unwrap(admin["a1"].wrote).cooldown = None
    /\ Unwrap(get_form(store, "g1", "f1")).cooldown = None
    /\ cooldown(cooldowns, "g1", "f1", "u1") = Some(MaxCooldown)

-----------------------------------------------------------------------------
(* SpecPrompt: Form::quick_modal applied to forms of up to two fields with *)
(* the styles, placeholders, length bounds and required flags the field    *)
(* commands can set (min_length 0..1024, max_length 1..1024, unrelated).   *)

PromptMin == 10
PromptMax == 5

PromptFields ==
    {[AggField(n) EXCEPT !.style = st, !.placeholder = ph, !.min_length = mn,
                         !.max_length = mx, !.required = rq] :
        n \in {"A", "B"}, st \in {"Short", "Paragraph"}, ph \in {None, Some("P")},
        mn \in {None, Some(0), Some(PromptMin)},
        mx \in {None, Some(PromptMax), Some(FIELD_RESPONSE_MAX_LENGTH)}, rq \in BOOLEAN}

PromptInit ==
    /\ agg \in {StoreForm("f1", None, None, None, fs) :
                  fs \in {<<>>} \cup {<<f>> : f \in PromptFields}
                         \cup {<<f, g>> : f \in PromptFields,
                                          g \in {x \in PromptFields : x.style = "Short"
                                                                      /\ x.required}}}
    /\ last = [op |-> "new", ret |-> None]
    /\ RestInit

PromptBuild ==
    /\ last.op = "new"
    /\ last' = [op |-> "quick_modal", ret |-> quick_modal(agg)]
    /\ UNCHANGED <<agg, store, usedIds, admin, cooldowns, now, permissions, run>>

PromptNext == PromptBuild

SpecPrompt == PromptInit /\ [][PromptNext]_vars

\* C29: quick_modal gives None exactly for a form without fields; otherwise a
\* modal with the form's title, the timeout of 600 seconds and one input per
\* field in the order of the fields, input i carrying the name, style,
\* placeholder and required flag of field i and the custom id i (from 0).
C29_QuickModal ==
    last.op = "quick_modal"
    => /\ (last.ret = None) = (Len(agg.fields) = 0)
       /\ IsSome(last.ret) =>
             LET m == Unwrap(last.ret)
             IN  /\ m.timeout = 600
                 /\ m.title = agg.title
                 /\ Len(m.inputs) = Len(agg.fields)
                 /\ \A i \in 1 .. Len(agg.fields) :
                       /\ m.inputs[i].custom_id = usize_to_string(i - 1)
                       /\ m.inputs[i].label = agg.fields[i].name
                       /\ m.inputs[i].style = agg.fields[i].style
                       /\ m.inputs[i].placeholder = agg.fields[i].placeholder
                       /\ m.inputs[i].required = agg.fields[i].required

\* two fields of different names and styles, in their order
C29_Witness ==
    /\ last.op = "quick_modal"
    /\ Len(agg.fields) = 2
    /\ agg.fields[1].name = "B" /\ agg.fields[1].style = "Paragraph"
    /\ agg.fields[2].name = "A"
    /\ Unwrap(last.ret).inputs[1].label = "B"
    /\ Unwrap(last.ret).inputs[1].custom_id = "0"
    /\ Unwrap(last.ret).inputs[2].label = "A"
    /\ Unwrap(last.ret).inputs[2].custom_id = "1"

\* C30 (as claimed): input i of the modal has the minimum length of field i
\* when that is set and the maximum length of field i when that is set,
\* whatever the minimum is.  input_text takes the maximum from min_length.
C30_LengthBounds ==
    (last.op = "quick_modal" /\ IsSome(last.ret))
    => \A i \in 1 .. Len(agg.fields) :
          LET input == Unwrap(last.ret).inputs[i]
              field == agg.fields[i]
          IN  /\ IsSome(field.min_length) => input.min_length = field.min_length
              /\ IsSome(field.max_length) => input.max_length = field.max_length

-----------------------------------------------------------------------------
(* SpecResult: one run of event_handler for a stored form of one or two    *)
(* fields with differing names and inline flags, with or without mention   *)
(* and description.                                                        *)

ResultFields == {[AggField(n) EXCEPT !.inline = inl] : n \in {"A", "B"}, inl \in BOOLEAN}

ResultForms ==
    {StoreForm("f1", description, mention, None, fs) :
        description \in {None, Some("D")},
        mention \in {None, Some([kind |-> "Role", id |-> "role"])},
        fs \in {<<f>> : f \in ResultFields} \cup (ResultFields \X ResultFields)}

ResultInit ==
    /\ agg = None
    /\ last = None
    /\ \E form \in ResultForms :
          store = save_form([k \in FormsKeys |-> [f \in FormIds |-> None]], "g1", form)
    /\ usedIds = {"f1"}
    /\ admin = [a \in Admins |-> IdleAdmin]
    /\ cooldowns = [k \in CooldownKeys |-> 0]
    /\ now = 0
    /\ permissions = [c \in Channels |-> TRUE]
    /\ run = [r \in Runs |-> IdleRun]

ResultNext ==
    \/ \E ok \in BOOLEAN : handler_trigger("r1", "g1", "f1", "u1", ok)
    \/ handler_submit("r1")
    \/ handler_cancel("r1")
    \/ \E ok \in BOOLEAN : handler_defer("r1", ok)
    \/ \E ok \in BOOLEAN : handler_create_thread("r1", ok)
    \/ \E ok \in BOOLEAN : handler_send_message("r1", ok)
    \/ \E ok \in BOOLEAN : handler_add_thread_member("r1", ok)
    \/ \E ok \in BOOLEAN : handler_edit_response("r1", ok)

SpecResult == ResultInit /\ [][ResultNext]_vars

\* C31: the embed of a dispatched run has one field per field of the loaded
\* form, in the form's order: field i has the name of form field i, the answer
\* typed into input i (custom id i - 1) and the inline flag of form field i.
C31_ResultFields ==
    \A r \in Runs :
        Dispatched(r)
        => LET f == Unwrap(run[r].form)
               e == Unwrap(run[r].message).embed
           IN  /\ Len(e.fields) = Len(f.fields)
               /\ \A i \in 1 .. Len(f.fields) :
                     /\ e.fields[i].name = f.fields[i].name
                     /\ e.fields[i].value = Answer(usize_to_string(i - 1))
                     /\ e.fields[i].inline = f.fields[i].inline

\* an inline field B before a block field A
C31_Witness ==
    /\ Dispatched("r1")
    /\ Names(Unwrap(run["r1"].form).fields) = <<"B", "A">>
    /\ Unwrap(run["r1"].message).embed.fields
          = <<[name |-> "B", value |-> Answer("0"), inline |-> TRUE],
              [name |-> "A", value |-> Answer("1"), inline |-> FALSE]>>

\* the position of a text part in a message content, 0 when it is not there
PartIndex(content, part) ==
    IF part \in Range(content) THEN CHOOSE i \in DOMAIN content : content[i] = part ELSE 0

\* C32 (as claimed): the message a run posts contains the mention of the
\* loaded form when it has one and its description when it has one, the
\* mention before the description, and neither for a form with neither.
\* event_handler posts the fixed content "This is a nice place".
C32_MentionAndDescription ==
    \A r \in Runs :
        IsSome(run[r].message)
        => LET f == Unwrap(run[r].form)
               content == Unwrap(run[r].message).content
           IN  /\ IsSome(f.mention) => PartIndex(content, Unwrap(f.mention).id) > 0
               /\ IsSome(f.description) => PartIndex(content, Unwrap(f.description)) > 0
               /\ (IsSome(f.mention) /\ IsSome(f.description))
                     => PartIndex(content, Unwrap(f.mention).id)
                           < PartIndex(content, Unwrap(f.description))
               /\ ~IsSome(f.mention) => "role" \notin Range(content)
               /\ ~IsSome(f.description) => "D" \notin Range(content)

-----------------------------------------------------------------------------
(* SpecValidate: the setters of Form and FormField applied to texts at and *)
(* around the limits, of ASCII characters (one byte each) and of           *)
(* two-byte characters, and to durations around whole seconds.             *)

\* n times the character "a"
Ascii(n) == [i \in 1 .. n |-> 97]
\* n times the character U+00E9, two bytes each in UTF-8
Wide(n) == [i \in 1 .. 2 * n |-> IF i % 2 = 1 THEN 195 ELSE 169]

\* the number of characters of a text: its bytes that are not continuation bytes
Characters(text) == Cardinality({i \in DOMAIN text : text[i] \notin 128 .. 191})

ValidateTitles ==
    {Ascii(1), Ascii(TITLE_MAX_LENGTH), Ascii(TITLE_MAX_LENGTH + 1),
     Wide(TITLE_MAX_LENGTH \div 2 + 1)}
ValidateDescriptions ==
    {None, Some(Ascii(DESCRIPTION_MAX_LENGTH)), Some(Ascii(DESCRIPTION_MAX_LENGTH + 1)),
     Some(Wide(DESCRIPTION_MAX_LENGTH \div 2 + 1))}
ValidateNames ==
    {Ascii(1), Ascii(LABEL_MAX_LENGTH), Ascii(LABEL_MAX_LENGTH + 1),
     Wide(LABEL_MAX_LENGTH \div 2 + 1)}
ValidatePlaceholders ==
    {None, Some(Ascii(PLACEHOLDER_MAX_LENGTH)), Some(Ascii(PLACEHOLDER_MAX_LENGTH + 1)),
     Some(Wide(PLACEHOLDER_MAX_LENGTH \div 2 + 1))}
\* parsed durations, in milliseconds
ValidateDurations ==
    {None} \cup {Some(ms) : ms \in {0, 1, 999, 1000, 1001, 1999, 1000 * MaxCooldown}}

ValidateInit ==
    /\ agg = add_field(Unwrap(Form_new("f1", Ascii(1), "c1").form),
                       Unwrap(FormField_new(Ascii(1), "Short").field), None).form
    /\ last = [op |-> "init", arg |-> None, ret |-> "Ok", before |-> agg]
    /\ RestInit

ValidateDone(op, arg, ret, form) ==
    /\ agg' = form
    /\ last' = [op |-> op, arg |-> arg, ret |-> ret, before |-> agg]
    /\ UNCHANGED <<store, usedIds, admin, cooldowns, now, run, permissions>>

\* create_form: Form::new(title, destination)?
ValidateNew(title) ==
    LET r == Form_new("f1", title, "c1")
    IN  ValidateDone("new", Some(title), r.ret, IF r.ret = "Ok" THEN Unwrap(r.form) ELSE agg)

\* rename: form.set_title(title)?
ValidateSetTitle(title) ==
    LET r == set_title(agg, title)
    IN  ValidateDone("set_title", Some(title), r.ret, r.form)

\* description: form.set_description(description)?
ValidateSetDescription(description) ==
    LET r == set_description(agg, description)
    IN  ValidateDone("set_description", description, r.ret, r.form)

\* cooldown: form.set_cooldown(..)
ValidateSetCooldown(duration) ==
    ValidateDone("set_cooldown", duration, "Ok", set_cooldown(agg, duration))

\* fields add: FormField::new(name, style)?, then add_field at the bottom
ValidateNewField(name) ==
    /\ Len(agg.fields) < 2
    /\ LET new == FormField_new(name, "Short")
       IN  ValidateDone("new_field", Some(name), new.ret,
                        IF new.ret = "Ok"
                        THEN add_field(agg, Unwrap(new.field), None).form
                        ELSE agg)

\* fields rename through update_field: set_name on the first field
ValidateSetName(name) ==
    /\ Len(agg.fields) >= 1
    /\ LET r == set_name(agg.fields[1], name)
       IN  ValidateDone("set_name", Some(name), r.ret, [agg EXCEPT !.fields[1] = r.field])

\* fields placeholder through update_field: set_placeholder on the first field
ValidateSetPlaceholder(placeholder) ==
    /\ Len(agg.fields) >= 1
    /\ LET r == set_placeholder(agg.fields[1], placeholder)
       IN  ValidateDone("set_placeholder", placeholder, r.ret,
                        [agg EXCEPT !.fields[1] = r.field])

ValidateNext ==
    \/ \E title \in ValidateTitles : ValidateNew(title)
    \/ \E title \in ValidateTitles : ValidateSetTitle(title)
    \/ \E description \in ValidateDescriptions : ValidateSetDescription(description)
    \/ \E duration \in ValidateDurations : ValidateSetCooldown(duration)
    \/ \E name \in ValidateNames : ValidateNewField(name)
    \/ \E name \in ValidateNames : ValidateSetName(name)
    \/ \E placeholder \in ValidatePlaceholders : ValidateSetPlaceholder(placeholder)

SpecValidate == ValidateInit /\ [][ValidateNext]_vars

\* C33: set_cooldown returns nothing to fail with; no duration, zero and any
\* duration under a second leave the form without cooldown, any other duration
\* leaves its whole seconds; a form never has a cooldown under one second.
C33_SetCooldownNormalizes ==
    /\ last.op = "set_cooldown"
          => /\ last.ret = "Ok"
             /\ IF last.arg = None \/ Unwrap(last.arg) < 1000
                THEN agg.cooldown = None
                ELSE /\ IsSome(agg.cooldown)
                     /\ 1000 * Unwrap(agg.cooldown) <= Unwrap(last.arg)
                     /\ Unwrap(last.arg) < 1000 * (Unwrap(agg.cooldown) + 1)
             /\ agg = [last.before EXCEPT !.cooldown = agg.cooldown]
    /\ agg.cooldown = None \/ Unwrap(agg.cooldown) >= 1

\* 1999 ms over a cooldown of two seconds leaves one second
C33_Witness ==
    /\ last.op = "set_cooldown"
    /\ last.arg = Some(1999)
    /\ last.before.cooldown = Some(MaxCooldown)
    /\ agg.cooldown = Some(1)

\* C34 (as claimed): Form::new and set_title return ValueTooLong exactly when
\* the title has more than 256 characters, set_description exactly when the
\* text has more than 4096 characters; a failing call leaves title and
\* description as they were, and no form has a longer title or description.
\* The code compares the length in bytes.
C34_TitleAndDescriptionLimits ==
    /\ last.op \in {"new", "set_title"}
          => (last.ret = "Err(ValueTooLong)")
                = (Characters(Unwrap(last.arg)) > TITLE_MAX_LENGTH)
    /\ last.op = "set_description"
          => (last.ret = "Err(ValueTooLong)")
                = (IsSome(last.arg) /\ Characters(Unwrap(last.arg)) > DESCRIPTION_MAX_LENGTH)
    /\ (last.op \in {"new", "set_title", "set_description"} /\ last.ret # "Ok")
          => agg = last.before
    /\ Characters(agg.title) <= TITLE_MAX_LENGTH
    /\ IsSome(agg.description) => Characters(Unwrap(agg.description)) <= DESCRIPTION_MAX_LENGTH

\* C35 (as claimed): FormField::new and set_name return ValueTooLong exactly
\* when the name has more than 45 characters, set_placeholder exactly when the
\* placeholder has more than 100 characters; a failing setter leaves the field
\* as it was; no field of a form has a longer name or placeholder.  The code
\* compares the length in bytes.
C35_NameAndPlaceholderLimits ==
    /\ last.op \in {"new_field", "set_name"}
          => (last.ret = "Err(ValueTooLong)")
                = (Characters(Unwrap(last.arg)) > LABEL_MAX_LENGTH)
    /\ last.op = "set_placeholder"
          => (last.ret = "Err(ValueTooLong)")
                = (IsSome(last.arg) /\ Characters(Unwrap(last.arg)) > PLACEHOLDER_MAX_LENGTH)
    /\ (last.op \in {"new_field", "set_name", "set_placeholder"} /\ last.ret # "Ok")
          => agg = last.before
    /\ \A i \in 1 .. Len(agg.fields) :
          /\ Characters(agg.fields[i].name) <= LABEL_MAX_LENGTH
          /\ IsSome(agg.fields[i].placeholder)
                => Characters(Unwrap(agg.fields[i].placeholder)) <= PLACEHOLDER_MAX_LENGTH

-----------------------------------------------------------------------------
(* Further properties of the admin commands under SpecAdmin                *)

FieldFailureReplies ==
    {"add_before is not valid", "The maximum amount of fields has been reached",
     "Unknown field", "position must be between 1 and the number of fields",
     "Field could not be found"}

\* C36: a field command saves only the result of an aggregate operation that
\* succeeded on the copy it loaded; when the operation fails the command saves
\* nothing, the store stays as it was, and the command ends with one of the
\* short messages, never with a returned AddFieldError.
C36_FailedFieldCommandSavesNothing ==
    [][\A a \in Admins :
          (admin[a].pc = "loaded" /\ admin'[a].pc = "done")
          => LET f == admin[a].form
                 d == admin'[a]
             IN  /\ d.reply = "Field was added"
                       => \E name \in AdminNames,
                             ab \in {None} \cup {Some(i) : i \in AdminIndices} :
                             LET r == add_field(f, Unwrap(FormField_new(name, "Short").field), ab)
                             IN  r.ret = "Ok" /\ d.wrote = Some(r.form)
                 /\ d.reply = "Field was removed"
                       => \E i \in AdminIndices :
                             LET r == remove_field(f, i)
                             IN  r.ret = "true" /\ d.wrote = Some(r.form)
                 /\ d.reply = "Field moved"
                       => \E i \in AdminIndices, pos \in 1 .. AdminMaxIndex + 1 :
                             LET r == move_field(f, i, pos - 1)
                             IN  r.ret = "Ok(true)" /\ d.wrote = Some(r.form)
                 /\ d.reply = "Field updated"
                       => \E i \in AdminIndices : i < Len(f.fields) /\ IsSome(d.wrote)
                 /\ d.reply \notin SuccessReplies
                       => /\ d.reply \in FieldFailureReplies
                          /\ d.wrote = None
                          /\ store' = store]_vars

\* an add refused for a full form, a move refused for its position, a remove
\* and an update refused for their index: nothing written each time
C36_Witness ==
    /\ admin["a1"].pc = "done"
    /\ admin["a1"].reply = "The maximum amount of fields has been reached"
    /\ admin["a1"].wrote = None
    /\ admin["a2"].pc = "done"
    /\ admin["a2"].reply = "Field could not be found"
    /\ admin["a2"].wrote = None
    /\ Len(Unwrap(get_form(store, "g1", "f1")).fields) = MAX_FIELDS

\* C37: every form in the store is held under its own id, get_form_ids lists
\* no id twice, and the form a command saves has the id of the form the
\* command loaded, which is the id the command was given.
C37_IdIsKey ==
    /\ [](/\ \A g \in Guilds, id \in FormIds :
                IsSome(get_form(store, g, id)) => Unwrap(get_form(store, g, id)).id = id
          /\ \A g \in Guilds : \A x, y \in get_form_ids(store, g) : x[1] = y[1] => x = y)
    /\ [][\A a \in Admins :
             (admin[a].pc = "loaded" /\ admin'[a].pc = "done" /\ IsSome(admin'[a].wrote))
             => /\ Unwrap(admin'[a].wrote).id = admin[a].form.id
                /\ admin[a].form.id = admin[a].id]_vars

\* renamed, given a field and moved about: still form f1 under f1
C37_Witness ==
    /\ IsSome(get_form(store, "g1", "f1"))
    /\ Unwrap(get_form(store, "g1", "f1")).id = "f1"
    /\ Unwrap(get_form(store, "g1", "f1")).title = "T2"
    /\ Len(Unwrap(get_form(store, "g1", "f1")).fields) = 2
    /\ admin["a1"].pc = "done"
    /\ admin["a1"].reply = "Field moved"
    /\ get_form_ids(store, "g1") = {<<"f1", "T2">>}

-----------------------------------------------------------------------------
(* SpecLive: two runs of event_handler for a form that is absent, has no   *)
(* field or has one, where every awaited call returns (with success or     *)
(* with an error) and every modal shown is submitted, dismissed or timed    *)
(* out after MODAL_TIMEOUT_SECS.                                            *)

LiveInit ==
    /\ agg = None
    /\ last = None
    /\ \E fields \in {<<>>, <<AggField("A")>>}, stored \in BOOLEAN :
          store = IF stored
                  THEN save_form([k \in FormsKeys |-> [f \in FormIds |-> None]], "g1",
                                 PipelineForm(fields, None))
                  ELSE [k \in FormsKeys |-> [f \in FormIds |-> None]]
    /\ usedIds = {"f1"}
    /\ admin = [a \in Admins |-> IdleAdmin]
    /\ cooldowns = [k \in CooldownKeys |-> 0]
    /\ now = 0
    /\ permissions \in [Channels -> BOOLEAN]
    /\ run = [r \in Runs |-> IdleRun]

\* the steps of run r after the button press
handler_step(r) ==
    \/ handler_submit(r)
    \/ handler_cancel(r)
    \/ \E ok \in BOOLEAN : handler_defer(r, ok)
    \/ \E ok \in BOOLEAN : handler_create_thread(r, ok)
    \/ \E ok \in BOOLEAN : handler_send_message(r, ok)
    \/ \E ok \in BOOLEAN : handler_add_thread_member(r, ok)
    \/ \E ok \in BOOLEAN : handler_edit_response(r, ok)

LiveNext ==
    \/ \E r \in Runs, ok \in BOOLEAN :
          /\ Arrived(r)
          /\ handler_trigger(r, "g1", "f1", "u1", ok)
    \/ \E r \in Runs : handler_step(r)

SpecLive == LiveInit /\ [][LiveNext]_vars /\ \A r \in Runs : WF_vars(handler_step(r))

TerminalOutcomes == {"Blocked", "NotFound", "Misconfigured", "Cancelled", "Dispatched", "Err"}

\* C38: a run that has started reaches the end of the handler with one of the
\* terminal outcomes, and a run that is neither at its end nor waiting for the
\* modal always has its next step to take: it only waits for a call to return.
C38_RunsTerminate ==
    /\ \A r \in Runs :
          (run[r].pc # "idle") ~> (run[r].pc = "done" /\ run[r].outcome \in TerminalOutcomes)
    /\ [](\A r \in Runs :
             run[r].pc \notin {"idle", "prompting", "done"} => ENABLED handler_step(r))

\* one run through to the created thread, the other dismissed
C38_Witness ==
    /\ Dispatched("r1")
    /\ run["r2"].pc = "done"
    /\ run["r2"].outcome = "Cancelled"
    /\ run["r2"].calls = <<"quick_modal">>

-----------------------------------------------------------------------------
(* Further properties of the aggregate under SpecAgg                       *)

\* how often a field occurs in a field sequence
Occurrences(fields, field) == Cardinality({i \in DOMAIN fields : fields[i] = field})

\* C39: move_field keeps the number of fields and how often each field occurs,
\* for every index and destination; it returns Ok(true), Ok(false) or
\* IllegalAddBefore, never TooManyFields, and whenever it does not return
\* Ok(true) the form is as it was: no error comes after the removal.
C39_MoveFieldKeepsFields ==
    last.op = "move_field"
    => /\ Len(agg.fields) = Len(last.before.fields)
       /\ \A field \in Range(agg.fields) \cup Range(last.before.fields) :
             Occurrences(agg.fields, field) = Occurrences(last.before.fields, field)
       /\ last.ret \in {"Ok(true)", "Ok(false)", "Err(IllegalAddBefore)"}
       /\ last.ret # "Ok(true)" => agg = last.before

\* a full form with a name that occurs twice, its first field moved to the end
C39_Witness ==
    /\ last.op = "move_field"
    /\ last.ret = "Ok(true)"
    /\ Len(last.before.fields) = MAX_FIELDS
    /\ last.index = Some(0)
    /\ last.arg = Some(MAX_FIELDS - 1)
    /\ Names(last.before.fields) = <<"F0", "F1", "F0", "F2", "F3">>
    /\ Names(agg.fields) = <<"F1", "F0", "F2", "F3", "F0">>

-----------------------------------------------------------------------------
(* SpecRace: two admins rename, restyle and delete a stored form of one    *)
(* field while its button is pressed.                                      *)

RaceInit ==
    /\ agg = None
    /\ last = None
    /\ store = save_form([k \in FormsKeys |-> [f \in FormIds |-> None]], "g1",
                         PipelineForm(<<AggField("A")>>, None))
    /\ usedIds = {"f1"}
    /\ admin = [a \in Admins |-> IdleAdmin]
    /\ cooldowns = [k \in CooldownKeys |-> 0]
    /\ now = 0
    /\ permissions = [c \in Channels |-> TRUE]
    /\ run = [r \in Runs |-> IdleRun]

RaceNext ==
    \/ \E a \in Admins : cmd_get_form(a, "g1", "f1")
    \/ \E a \in Admins : cmd_delete_form(a, "g1", "f1")
    \/ \E a \in Admins, title \in AdminTitles : cmd_rename(a, title)
    \/ \E a \in Admins : cmd_style(a, 0, "Paragraph")
    \/ \E r \in Runs, ok \in BOOLEAN :
          /\ Arrived(r)
          /\ handler_trigger(r, "g1", "f1", "u1", ok)

SpecRace == RaceInit /\ [][RaceNext]_vars

\* C40: when a command saves the copy it loaded after the form was deleted,
\* the store holds that copy again: get_form returns it, get_form_ids lists
\* it, and a press of the form's button while it is there shows the modal
\* (unless Discord refuses the modal).
C40_SaveAfterDeleteRecreates ==
    /\ [][\A a \in Admins :
             (/\ admin[a].pc = "loaded"
              /\ get_form(store, admin[a].guild, admin[a].id) = None
              /\ admin'[a].pc = "done"
              /\ IsSome(admin'[a].wrote))
             => /\ get_form(store', admin[a].guild, admin[a].id) = admin'[a].wrote
                /\ <<admin[a].id, Unwrap(admin'[a].wrote).title>>
                      \in get_form_ids(store', admin[a].guild)
                /\ admin'[a].reply \in SuccessReplies]_vars
    /\ [][\A r \in Runs :
             (Started(r) /\ IsSome(get_form(store, "g1", "f1")))
             => (run'[r].pc = "prompting" \/ run'[r].outcome = "Err")]_vars

\* a2's delete returned true between a1's load and a1's save; the form is
\* back under a1's new title, and the button pressed afterwards shows the modal
C40_Witness ==
    /\ admin["a2"].pc = "done"
    /\ admin["a2"].reply = "Form was deleted"
    /\ admin["a2"].overwritten
    /\ admin["a1"].pc = "done"
    /\ admin["a1"].reply = "Form was renamed"
    /\ admin["a1"].stale
    /\ IsSome(get_form(store, "g1", "f1"))
    /\ Unwrap(get_form(store, "g1", "f1")).title = "T2"
    /\ run["r1"].pc = "prompting"
    /\ Unwrap(run["r1"].form).title = "T2"

====
